---- MODULE Spec2Model ----
(***************************************************************************)
(* Verification model of the protviz track layout code: the five track     *)
(* kinds of src/src/protviz/tracks (PDBTrack, LigandInteractionTrack,      *)
(* InterProTrack, TEDDomainsTrack, CustomTrack), their constructors and    *)
(* their _layout_entries_for_view methods.                                 *)
(*                                                                         *)
(* Lengths (heights, spacings, paddings) are the source's floats scaled by *)
(* 1000, so that 0.1 is 100 and 0.05 is 50.                                *)
(***************************************************************************)
EXTENDS Integers, Sequences, FiniteSets, TLC

VARIABLES
    track,      \* the track object: a record of its attributes
    view,       \* arguments of the last _layout_entries_for_view call, or NoView
    earlier     \* history of the calls before the last one: "none" when there
                \* was no such call, "data" when one of them found data in its
                \* window, "empty" otherwise
VARIABLE
    plot        \* the last plot_protein_tracks call: its arguments (the track
                \* objects among them) and what it computed, or NoPlot
VARIABLE
    call        \* the last call of a data_retrieval function: the function,
                \* the reply of the remote service and how the call ended,
                \* or NoCall

VARIABLE
    caller      \* the annotation list of the caller's program that was handed
                \* to the track's constructor: as it was handed over and as
                \* it is now, or NoCaller

vars == <<track, view, earlier, plot, call, caller>>

----------------------------------------------------------------------------
(* Bounds of the model *)

\* sequence positions are 1..MaxPos
MaxPos == 4
\* most records in the data handed to a PDBTrack or a CustomTrack
MaxRecs == 3
\* most annotations in the data handed to a LigandInteractionTrack, an
\* InterProTrack or a TEDDomainsTrack
MaxAnns == 2
\* most segments (sites, locations, chopping parts) of one such annotation
MaxSegs == 2
\* most raw records in the list handed to CustomTrack in SpecCustom
MaxRaw == 2

----------------------------------------------------------------------------
(* Generic helpers *)

Max(a, b) == IF a >= b THEN a ELSE b
Min(a, b) == IF a <= b THEN a ELSE b

BoundedSeq(S, n) == UNION {[1..k -> S] : k \in 0..n}

Range(s) == {s[i] : i \in 1..Len(s)}

\* (a1, a2) <= (b1, b2) in Python's tuple order
TupleLe(a1, a2, b1, b2) == a1 < b1 \/ (a1 = b1 /\ a2 <= b2)

NoView == <<0, 0>>

\* no plot_protein_tracks call is part of the behaviour
NoPlot == [called |-> FALSE]

\* no data_retrieval call is part of the behaviour
NoCall == [op |-> "none"]

\* the view windows a caller passes: 1 <= start < end <= MaxPos
Views == {w \in (1..MaxPos) \X (1..MaxPos) : w[1] < w[2]}

\* the spans <<start, end>> of the input data: 1 <= start <= end <= MaxPos
Intervals == {iv \in (1..MaxPos) \X (1..MaxPos) : iv[1] <= iv[2]}

\* the segment lists of one record: at most MaxSegs spans, ascending and disjoint
SegLists == {sl \in BoundedSeq(Intervals, MaxSegs) :
                \A i \in 1..(Len(sl) - 1) : sl[i + 1][1] > sl[i][2]}

\* BaseTrack.get_total_height: height + padding * 1.5
get_total_height(t) == t.height + (t.padding * 3) \div 2

----------------------------------------------------------------------------
(* PDBTrack *)

\* PDBTrack.__init__ defaults
pdb_bar_height == 100
pdb_bar_vertical_spacing == 50
pdb_full_mode_padding == 100
pdb_collapse_mode_padding == 100

PlottingOptions == {"full", "collapse"}

\* sorted(pdb_data, key=(unp_start, unp_end)): stable insertion of x into an
\* already sorted list, after every element whose key is <= its key
RECURSIVE PDBInsertSorted(_, _)
PDBInsertSorted(sorted, x) ==
    IF sorted = <<>> THEN <<x>>
    ELSE LET last == sorted[Len(sorted)]
         IN IF TupleLe(last.unp_start, last.unp_end, x.unp_start, x.unp_end)
            THEN Append(sorted, x)
            ELSE Append(PDBInsertSorted(SubSeq(sorted, 1, Len(sorted) - 1), x), last)

RECURSIVE PDBSorted(_)
PDBSorted(data) ==
    IF data = <<>> THEN <<>>
    ELSE PDBInsertSorted(PDBSorted(SubSeq(data, 1, Len(data) - 1)), data[Len(data)])

\* PDBTrack.__init__ keeping the records in the caller's order
PDBTrackInit_Unsorted(pdb_data, plotting_option) ==
    [kind |-> "pdb",
     plotting_option |-> plotting_option,
     pdb_data_orig |-> pdb_data,
     padding |-> IF plotting_option = "full" THEN pdb_full_mode_padding
                 ELSE pdb_collapse_mode_padding,
     height |-> IF pdb_data = <<>> THEN pdb_bar_height ELSE 0,
     visible_pdb_data |-> <<>>,
     lanes_end_pos |-> <<>>,
     _lanes_assignment_view |-> <<>>,
     _merged_regions_view |-> <<>>,
     _num_lanes_view |-> 0]

\* PDBTrack.__init__
PDBTrackInit(pdb_data, plotting_option) ==
    [kind |-> "pdb",
     plotting_option |-> plotting_option,
     pdb_data_orig |-> PDBSorted(pdb_data),
     padding |-> IF plotting_option = "full" THEN pdb_full_mode_padding
                 ELSE pdb_collapse_mode_padding,
     height |-> IF pdb_data = <<>> THEN pdb_bar_height ELSE 0,
     visible_pdb_data |-> <<>>,
     lanes_end_pos |-> <<>>,
     _lanes_assignment_view |-> <<>>,
     _merged_regions_view |-> <<>>,
     _num_lanes_view |-> 0]

\* the condition with `<=` for `<`: an entry ending on view_start_aa is dropped
PDBEntryInView_EndExclusive(e, view_start_aa, view_end_aa) ==
    ~(e.unp_end <= view_start_aa \/ e.unp_start > view_end_aa)

\* the condition of lines 130-133
PDBEntryInView(e, view_start_aa, view_end_aa) ==
    ~(e.unp_end < view_start_aa \/ e.unp_start > view_end_aa)

\* the list comprehension of lines 127-134: the indices (into pdb_data_orig) of
\* the entries that overlap the view, in list order
RECURSIVE PDBVisible(_, _, _, _)
PDBVisible(data, n, view_start_aa, view_end_aa) ==
    IF n = 0 THEN <<>>
    ELSE LET rest == PDBVisible(data, n - 1, view_start_aa, view_end_aa)
         IN IF PDBEntryInView(data[n], view_start_aa, view_end_aa)
            THEN Append(rest, n)
            ELSE rest

\* the test with `>=` for `>`: a lane counts as free when the entry starts on
\* the residue the lane ends on
PDBLaneIsFree_Touching(layout_s, lane_end_coord) == layout_s >= lane_end_coord

\* the test of line 159
PDBLaneIsFree(layout_s, lane_end_coord) == layout_s > lane_end_coord

\* the scan of lines 158-163: the first lane (1-based) from i on whose end
\* coordinate lies left of layout_s, 0 when there is none
RECURSIVE PDBFirstLane(_, _, _)
PDBFirstLane(lanes_end_pos, layout_s, i) ==
    IF i > Len(lanes_end_pos) THEN 0
    ELSE IF PDBLaneIsFree(layout_s, lanes_end_pos[i]) THEN i
    ELSE PDBFirstLane(lanes_end_pos, layout_s, i + 1)

\* the loop of lines 148-166 from the k-th visible entry on; acc holds the
\* local lanes_end_pos and self._lanes_assignment_view built so far.  An
\* assignment is (entry, lane) with entry the index of the dict in pdb_data_orig
\* and lane the 0-based lane index.
RECURSIVE PDBAssignLanes(_, _, _, _, _, _)
PDBAssignLanes(data, visible, k, view_start_aa, view_end_aa, acc) ==
    IF k > Len(visible) THEN acc
    ELSE LET entry == data[visible[k]]
             layout_s == Max(entry.unp_start, view_start_aa)
             layout_e == Min(entry.unp_end, view_end_aa)
             i == PDBFirstLane(acc.lanes_end_pos, layout_s, 1)
         IN IF layout_s >= layout_e
            THEN PDBAssignLanes(data, visible, k + 1, view_start_aa, view_end_aa, acc)
            ELSE IF i # 0
            THEN PDBAssignLanes(data, visible, k + 1, view_start_aa, view_end_aa,
                    [lanes_end_pos |-> [acc.lanes_end_pos EXCEPT ![i] = layout_e],
                     assignment |-> Append(acc.assignment,
                                           [entry |-> visible[k], lane |-> i - 1])])
            ELSE PDBAssignLanes(data, visible, k + 1, view_start_aa, view_end_aa,
                    [lanes_end_pos |-> Append(acc.lanes_end_pos, layout_e),
                     assignment |-> Append(acc.assignment,
                                           [entry |-> visible[k],
                                            lane |-> Len(acc.lanes_end_pos)])])

\* the sweep of lines 105-118 of PDBTrack._calculate_merged_regions from the
\* i-th sorted entry on; a merged region {"unp_start": s, "unp_end": e} is
\* written <<s, e>>
RECURSIVE PDBMergeSweep(_, _, _, _, _)
PDBMergeSweep(pdb_data_sorted, i, current_start, current_end, merged) ==
    IF i > Len(pdb_data_sorted)
    THEN Append(merged, <<current_start, current_end>>)
    ELSE LET next_start == pdb_data_sorted[i].unp_start
             next_end == pdb_data_sorted[i].unp_end
         IN IF next_start = 0 /\ next_end = 0
            THEN PDBMergeSweep(pdb_data_sorted, i + 1, current_start, current_end, merged)
            ELSE IF next_start <= current_end + 1
            THEN PDBMergeSweep(pdb_data_sorted, i + 1, current_start,
                               Max(current_end, next_end), merged)
            ELSE PDBMergeSweep(pdb_data_sorted, i + 1, next_start, next_end,
                               Append(merged, <<current_start, current_end>>))

\* PDBTrack._calculate_merged_regions
PDBCalculateMergedRegions(current_pdb_data) ==
    IF current_pdb_data = <<>> THEN <<>>
    ELSE LET pdb_data_sorted == PDBSorted(current_pdb_data)
             first == pdb_data_sorted[1]
             valid == {j \in 1..Len(pdb_data_sorted) :
                          ~(pdb_data_sorted[j].unp_start = 0
                            /\ pdb_data_sorted[j].unp_end = 0)}
             first_valid == pdb_data_sorted[CHOOSE j \in valid : \A m \in valid : j <= m]
         IN IF first.unp_start = 0 /\ first.unp_end = 0
            THEN IF Len(pdb_data_sorted) = 1 \/ valid = {}
                 THEN <<>>
                 ELSE PDBMergeSweep(pdb_data_sorted, 2, first_valid.unp_start,
                                    first_valid.unp_end, <<>>)
            ELSE PDBMergeSweep(pdb_data_sorted, 2, first.unp_start, first.unp_end, <<>>)

\* the height without the spacing between the lanes
PDBFullHeight_NoSpacing(num_lanes) ==
    IF num_lanes > 0 THEN num_lanes * pdb_bar_height ELSE pdb_bar_height

\* height of lines 171-176
PDBFullHeight(num_lanes) ==
    IF num_lanes > 0
    THEN num_lanes * pdb_bar_height + Max(0, num_lanes - 1) * pdb_bar_vertical_spacing
    ELSE pdb_bar_height

\* the early return without the reset of _lanes_assignment_view: the lanes of
\* the window before stay
PDBNoVisibleData_KeepLanes(t) ==
    [t EXCEPT !._num_lanes_view = 0,
              !.height = pdb_bar_height,
              !.lanes_end_pos = <<>>,
              !._merged_regions_view = <<>>]

\* lines 136-141: the track when no entry is visible
PDBNoVisibleData(t) ==
    [t EXCEPT !._num_lanes_view = 0,
              !.height = pdb_bar_height,
              !.lanes_end_pos = <<>>,
              !._lanes_assignment_view = <<>>,
              !._merged_regions_view = <<>>]

\* PDBTrack._layout_entries_for_view: the track after the call
PDBLayoutEntriesForView(t, view_start_aa, view_end_aa) ==
    LET t1 == [t EXCEPT !.padding = IF t.plotting_option = "collapse"
                                    THEN pdb_collapse_mode_padding
                                    ELSE pdb_full_mode_padding]
        visible == PDBVisible(t.pdb_data_orig, Len(t.pdb_data_orig),
                              view_start_aa, view_end_aa)
        t2 == [t1 EXCEPT !.visible_pdb_data = visible]
        t3 == IF t.plotting_option = "full"
              THEN LET acc == PDBAssignLanes(t.pdb_data_orig, visible, 1,
                                             view_start_aa, view_end_aa,
                                             [lanes_end_pos |-> <<>>,
                                              assignment |-> <<>>])
                       num == Len(acc.lanes_end_pos)
                   IN [t2 EXCEPT !.lanes_end_pos = acc.lanes_end_pos,
                                 !._lanes_assignment_view = acc.assignment,
                                 !._num_lanes_view = num,
                                 !.height = PDBFullHeight(num)]
              ELSE LET merged == PDBCalculateMergedRegions(
                                     [j \in 1..Len(visible) |->
                                         t.pdb_data_orig[visible[j]]])
                   IN [t2 EXCEPT !._merged_regions_view = merged,
                                 !._num_lanes_view = 1,
                                 !.height = pdb_bar_height]
    IN IF visible = <<>>
       THEN PDBNoVisibleData(t2)
       ELSE \* lines 183-187
            IF \/ (t3.plotting_option = "full" /\ t3._lanes_assignment_view = <<>>)
               \/ (t3.plotting_option = "collapse" /\ t3._merged_regions_view = <<>>)
            THEN [t3 EXCEPT !.height = pdb_bar_height]
            ELSE t3

\* the entries a caller hands to PDBTrack
PDBEntries == {r \in [unp_start : 1..MaxPos, unp_end : 1..MaxPos] :
                  r.unp_start <= r.unp_end}

----------------------------------------------------------------------------
(* CustomTrack *)

\* CustomTrack.__init__ defaults
custom_ann_height == 100
custom_ann_spacing == 50
custom_padding == 100

\* The values a raw record can hold under a key: [t, v] with t the Python type
\* and v the number it denotes, when it denotes one.
\*   absent : the key is not in the dict
\*   none   : None
\*   badstr : a str int() cannot parse, like "abc"
\*   str    : the decimal str of v, like "3"
\*   float  : the float v + 0.5
\*   int    : the int v
Absent == [t |-> "absent", v |-> 0]
NoneVal == [t |-> "none", v |-> 0]
BadStr == [t |-> "badstr", v |-> 0]
StrVal(n) == [t |-> "str", v |-> n]
FloatVal(n) == [t |-> "float", v |-> n]
IntVal(n) == [t |-> "int", v |-> n]

\* Python's int(x): the int, or the exception it raises
PyInt(x) ==
    CASE x.t = "int"    -> [exc |-> "", v |-> x.v]
      [] x.t = "str"    -> [exc |-> "", v |-> x.v]
      [] x.t = "float"  -> [exc |-> "", v |-> x.v]
      [] x.t = "badstr" -> [exc |-> "ValueError", v |-> 0]
      [] OTHER          -> [exc |-> "TypeError", v |-> 0]

\* lines 123-127: start and end, swapped when start > end
CustomOrdered(start, end) ==
    IF start > end THEN [start |-> end, end |-> start]
    ELSE [start |-> start, end |-> end]

\* One pass of the loop body of lines 85-149 on item_orig: what happens to the
\* item.  outcome is "append" (item holds the processed dict), "skip" (a
\* `continue`) or "raise" (an exception int() raised that no except clause of
\* the body catches).  The processed dict keeps the copied 'position' value.
CustomProcessItem(item_orig) ==
    LET skip == [outcome |-> "skip", exc |-> "", item |-> item_orig]
        raise(e) == [outcome |-> "raise", exc |-> e, item |-> item_orig]
        pos == PyInt(item_orig.position)
        \* the values under 'start' and 'end' when the second try block runs
        start_raw == IF item_orig.position # Absent THEN IntVal(pos.v)
                     ELSE item_orig.start
        end_raw == IF item_orig.position # Absent THEN IntVal(pos.v)
                   ELSE item_orig.end
        s == PyInt(start_raw)
        e == PyInt(end_raw)
        start == CustomOrdered(s.v, e.v).start
        end == CustomOrdered(s.v, e.v).end
    IN IF ~item_orig.isdict THEN skip
       ELSE IF item_orig.position # Absent /\ pos.exc = "ValueError" THEN skip
       ELSE IF item_orig.position # Absent /\ pos.exc # "" THEN raise(pos.exc)
       ELSE IF item_orig.position = Absent
               /\ (item_orig.start = Absent \/ item_orig.end = Absent) THEN skip
       ELSE IF s.exc = "ValueError" THEN skip
       ELSE IF s.exc # "" THEN raise(s.exc)
       ELSE IF e.exc = "ValueError" THEN skip
       ELSE IF e.exc # "" THEN raise(e.exc)
       ELSE [outcome |-> "append", exc |-> "",
             item |-> [position |-> item_orig.position,
                       start |-> start,
                       end |-> end,
                       display_type |-> IF start = end THEN "marker" ELSE "bar"]]

\* CustomTrack._process_custom_ann_data from the i-th raw record on:
\* [exc, processed_data], exc the exception that leaves the method, "" if none
RECURSIVE CustomProcess(_, _, _)
CustomProcess(raw_data, i, processed_data) ==
    IF i > Len(raw_data) THEN [exc |-> "", processed_data |-> processed_data]
    ELSE LET r == CustomProcessItem(raw_data[i])
         IN IF r.outcome = "raise" THEN [exc |-> r.exc, processed_data |-> <<>>]
            ELSE IF r.outcome = "skip" THEN CustomProcess(raw_data, i + 1, processed_data)
            ELSE CustomProcess(raw_data, i + 1, Append(processed_data, r.item))

\* CustomTrack._process_custom_ann_data
process_custom_ann_data(raw_data) == CustomProcess(raw_data, 1, <<>>)

\* CustomTrack.__init__: the track, or with raised # "" the exception that
\* leaves the constructor (no track object exists then)
CustomTrackInit(annotation_data) ==
    LET r == process_custom_ann_data(annotation_data)
    IN [kind |-> "custom",
        raised |-> r.exc,
        annotation_data_orig |-> annotation_data,
        processed_annotations |-> r.processed_data,
        padding |-> custom_padding,
        height |-> IF r.exc = "" /\ r.processed_data = <<>>
                   THEN custom_ann_height ELSE 0,
        _visible_annotations_in_view |-> <<>>]

\* the loop of lines 155-158: indices (into processed_annotations) of the
\* annotations appended to _visible_annotations_in_view, in list order
RECURSIVE CustomVisible(_, _, _, _)
CustomVisible(anns, n, view_start_aa, view_end_aa) ==
    IF n = 0 THEN <<>>
    ELSE LET rest == CustomVisible(anns, n - 1, view_start_aa, view_end_aa)
             s == anns[n].start
             e == anns[n].end
         IN IF ~(e < view_start_aa \/ s > view_end_aa)
            THEN Append(rest, n)
            ELSE rest

\* the height without the else branch of lines 166-167
CustomHeight_NoPlaceholder(num_visible_annotations) ==
    num_visible_annotations * custom_ann_height
    + Max(0, num_visible_annotations - 1) * custom_ann_spacing

\* lines 161-167: the height for the number of visible annotations
CustomHeight(num_visible_annotations) ==
    IF num_visible_annotations > 0
    THEN num_visible_annotations * custom_ann_height
         + Max(0, num_visible_annotations - 1) * custom_ann_spacing
    ELSE custom_ann_height

\* CustomTrack._layout_entries_for_view: the track after the call
CustomLayoutEntriesForView(t, view_start_aa, view_end_aa) ==
    LET visible == CustomVisible(t.processed_annotations, Len(t.processed_annotations),
                                 view_start_aa, view_end_aa)
        num_visible_annotations == Len(visible)
    IN [t EXCEPT !._visible_annotations_in_view = visible,
                 !.height = CustomHeight(num_visible_annotations)]

\* the draw loop with the lane taken from the place in processed_annotations
CustomDrawLanes_ByInputIndex(t, view_start_aa, view_end_aa) ==
    LET visible == t._visible_annotations_in_view
    IN {[lane_index |-> visible[i] - 1, ann |-> visible[i]] :
          i \in {k \in 1..Len(visible) :
                   Max(t.processed_annotations[visible[k]].start, view_start_aa)
                     <= Min(t.processed_annotations[visible[k]].end, view_end_aa)}}

\* CustomTrack.draw, lines 206-233: the annotations it draws, each with the
\* lane i of enumerate(self._visible_annotations_in_view); an annotation with
\* plot_s > plot_e is skipped
CustomDrawLanes(t, view_start_aa, view_end_aa) ==
    LET visible == t._visible_annotations_in_view
    IN {[lane_index |-> i - 1, ann |-> visible[i]] :
          i \in {k \in 1..Len(visible) :
                   Max(t.processed_annotations[visible[k]].start, view_start_aa)
                     <= Min(t.processed_annotations[visible[k]].end, view_end_aa)}}

\* well-formed raw records: a dict with int 'start' <= 'end' and no 'position'
CustomPlainItems ==
    {[isdict |-> TRUE, position |-> Absent,
      start |-> IntVal(iv[1]), end |-> IntVal(iv[2])] : iv \in Intervals}

\* the raw records of SpecCustom: a record without 'position' ...
CustomRangeItems ==
    [isdict : {TRUE}, position : {Absent},
     start : {Absent, NoneVal, BadStr, IntVal(1), IntVal(3), FloatVal(2)},
     end : {Absent, NoneVal, BadStr, IntVal(2), StrVal(1)}]

\* ... a record with 'position', alone or beside 'start'/'end' ...
CustomPositionItems ==
    {[isdict |-> TRUE, position |-> p, start |-> se[1], end |-> se[2]] :
        p \in {NoneVal, BadStr, IntVal(2), StrVal(3), FloatVal(2)},
        se \in {<<Absent, Absent>>, <<IntVal(1), IntVal(3)>>, <<BadStr, Absent>>}}

\* ... and an item that is not a dict
CustomNotADict ==
    [isdict |-> FALSE, position |-> Absent, start |-> Absent, end |-> Absent]

CustomRawItems == CustomRangeItems \cup CustomPositionItems \cup {CustomNotADict}

\* the call CustomTrack(annotation_data) still to be made
PendingCustomTrack(annotation_data) ==
    [kind |-> "pending", annotation_data |-> annotation_data]

----------------------------------------------------------------------------
(* LigandInteractionTrack *)

\* LigandInteractionTrack.__init__ defaults
ligand_site_height == 100
ligand_spacing == 100
ligand_full_mode_padding == 100
ligand_collapse_mode_padding == 100

Ligands == {"ATP", "HEM"}

\* Python's order of the str keys used as ligand ids and accessions
StrRank(k) ==
    CASE k = "ATP" -> 1
      [] k = "HEM" -> 2
      [] k = "PF00001" -> 3
      [] k = "PF00002" -> 4
      [] OTHER -> 5

\* sorted(keys): the set of str keys as an ascending list
RECURSIVE SortedKeys(_)
SortedKeys(S) ==
    IF S = {} THEN <<>>
    ELSE LET k == CHOOSE x \in S : \A y \in S : StrRank(x) <= StrRank(y)
         IN <<k>> \o SortedKeys(S \ {k})

\* sorted(segments, key=(start, end)) on a list of <<start, end>>
RECURSIVE InsertSeg(_, _)
InsertSeg(sorted, x) ==
    IF sorted = <<>> THEN <<x>>
    ELSE LET last == sorted[Len(sorted)]
         IN IF TupleLe(last[1], last[2], x[1], x[2])
            THEN Append(sorted, x)
            ELSE Append(InsertSeg(SubSeq(sorted, 1, Len(sorted) - 1), x), last)

RECURSIVE SortedSegs(_)
SortedSegs(segs) ==
    IF segs = <<>> THEN <<>>
    ELSE InsertSeg(SortedSegs(SubSeq(segs, 1, Len(segs) - 1)), segs[Len(segs)])

\* the test without the `+ 1`: only overlapping segments join
SegJoinsRegion_OverlapOnly(seg_start, current_end) == seg_start <= current_end

\* the test `seg_start <= current_end + 1` of the sweep: overlap or adjacency
SegJoinsRegion(seg_start, current_end) == seg_start <= current_end + 1

\* the region's end replaced by the end of the joining segment, without the
\* max
ExtendRegion_LastEnd(current_end, seg_end) == seg_end

\* `current_end = max(current_end, seg_end)` of the sweep
ExtendRegion(current_end, seg_end) == Max(current_end, seg_end)

\* The sweep shared, line for line, by
\* LigandInteractionTrack._calculate_merged_site_regions,
\* InterProTrack._calculate_merged_regions and
\* TEDDomainsTrack._calculate_merged_ted_regions, from the i-th segment on;
\* (-1, -1) is the "no current region" sentinel.
RECURSIVE SentinelSweep(_, _, _, _, _)
SentinelSweep(segs, i, current_start, current_end, merged) ==
    IF i > Len(segs)
    THEN IF current_start # -1 THEN Append(merged, <<current_start, current_end>>)
         ELSE merged
    ELSE LET seg_start == segs[i][1]
             seg_end == segs[i][2]
         IN IF current_start = -1
            THEN SentinelSweep(segs, i + 1, seg_start, seg_end, merged)
            ELSE IF SegJoinsRegion(seg_start, current_end)
            THEN SentinelSweep(segs, i + 1, current_start,
                               ExtendRegion(current_end, seg_end), merged)
            ELSE SentinelSweep(segs, i + 1, seg_start, seg_end,
                               Append(merged, <<current_start, current_end>>))

\* LigandInteractionTrack._calculate_merged_site_regions (its caller sorts)
calculate_merged_site_regions(all_sites) ==
    IF all_sites = <<>> THEN <<>>
    ELSE SentinelSweep(all_sites, 1, -1, -1, <<>>)

\* LigandInteractionTrack.__init__
LigandTrackInit(interaction_data, plotting_option) ==
    [kind |-> "ligand",
     plotting_option |-> plotting_option,
     interaction_data_orig |-> interaction_data,
     padding |-> IF plotting_option = "collapse" THEN ligand_collapse_mode_padding
                 ELSE ligand_full_mode_padding,
     height |-> IF interaction_data = <<>> THEN ligand_site_height ELSE 0,
     _grouped_by_ligand_view |-> <<>>,
     _unique_ligands_view |-> <<>>,
     _num_ligand_lanes_view |-> 0,
     _merged_ligand_sites_view |-> <<>>]

\* the inner loop of lines 120-129: the sites of one interaction context that
\* overlap the view, in list order (a site is written <<startIndex, endIndex>>)
RECURSIVE LigandVisibleSites(_, _, _, _)
LigandVisibleSites(sites, n, view_start_aa, view_end_aa) ==
    IF n = 0 THEN <<>>
    ELSE LET rest == LigandVisibleSites(sites, n - 1, view_start_aa, view_end_aa)
             s == sites[n][1]
             e == sites[n][2]
         IN IF ~(e < view_start_aa \/ s > view_end_aa)
            THEN Append(rest, sites[n])
            ELSE rest

\* the outer loop of lines 116-129 over the first n contexts:
\* temp_grouped_by_ligand, a dict from ligand id to its list of visible sites
RECURSIVE LigandGroup(_, _, _, _)
LigandGroup(data, n, view_start_aa, view_end_aa) ==
    IF n = 0 THEN <<>>
    ELSE LET g == LigandGroup(data, n - 1, view_start_aa, view_end_aa)
             ligand_id == data[n].ligand_id
             old == IF ligand_id \in DOMAIN g THEN g[ligand_id] ELSE <<>>
             new == old \o LigandVisibleSites(data[n].binding_site_uniprot_residues,
                                              Len(data[n].binding_site_uniprot_residues),
                                              view_start_aa, view_end_aa)
         IN [k \in (DOMAIN g) \cup {ligand_id} |->
                IF k = ligand_id THEN new ELSE g[k]]

\* lines 156-159: the sites of the ligands, ligand after ligand
RECURSIVE LigandAllSites(_, _, _)
LigandAllSites(grouped, unique_ligands, n) ==
    IF n = 0 THEN <<>>
    ELSE LigandAllSites(grouped, unique_ligands, n - 1) \o grouped[unique_ligands[n]]

\* LigandInteractionTrack._layout_entries_for_view: the track after the call
LigandLayoutEntriesForView(t, view_start_aa, view_end_aa) ==
    LET temp_grouped_by_ligand ==
            LigandGroup(t.interaction_data_orig, Len(t.interaction_data_orig),
                        view_start_aa, view_end_aa)
        keep == {k \in DOMAIN temp_grouped_by_ligand : temp_grouped_by_ligand[k] # <<>>}
        grouped == [k \in keep |-> temp_grouped_by_ligand[k]]
        unique == SortedKeys(keep)
        num == Len(unique)
        t1 == [t EXCEPT !.padding = IF t.plotting_option = "collapse"
                                    THEN ligand_collapse_mode_padding
                                    ELSE ligand_full_mode_padding,
                        !._grouped_by_ligand_view = grouped,
                        !._unique_ligands_view = unique,
                        !._num_ligand_lanes_view = num]
        t2 == IF t.plotting_option = "full"
              THEN [t1 EXCEPT !.height =
                       IF num > 0
                       THEN num * ligand_site_height + Max(0, num - 1) * ligand_spacing
                       ELSE ligand_site_height]
              ELSE LET merged == calculate_merged_site_regions(
                                     SortedSegs(LigandAllSites(grouped, unique, num)))
                   IN [t1 EXCEPT !._merged_ligand_sites_view = merged,
                                 !.height = ligand_site_height]
    IN \* lines 172-181
       IF \/ t2.interaction_data_orig = <<>>
          \/ (t2.plotting_option = "full" /\ t2._num_ligand_lanes_view = 0)
          \/ (t2.plotting_option = "collapse" /\ t2._merged_ligand_sites_view = <<>>)
       THEN [t2 EXCEPT !.height = ligand_site_height]
       ELSE t2

\* _draw_full_mode with the lanes numbered from the last ligand upwards
LigandDrawFullMode_ReversedLanes(t, view_start_aa, view_end_aa) ==
    LET unique == t._unique_ligands_view
    IN UNION {
         {[lane_index |-> Len(unique) - i,
           ligand_id |-> unique[i],
           site |-> t._grouped_by_ligand_view[unique[i]][j]] :
            j \in {k \in 1..Len(t._grouped_by_ligand_view[unique[i]]) :
                     Max(t._grouped_by_ligand_view[unique[i]][k][1], view_start_aa)
                       <= Min(t._grouped_by_ligand_view[unique[i]][k][2], view_end_aa)}} :
         i \in 1..Len(unique)}

\* LigandInteractionTrack._draw_full_mode, lines 257-273: the rectangles it
\* adds, each with the lane it is drawn on (enumerate counts from 0), the
\* ligand and the site; a site with plot_s > plot_e is skipped
LigandDrawFullMode(t, view_start_aa, view_end_aa) ==
    LET unique == t._unique_ligands_view
    IN UNION {
         {[lane_index |-> i - 1,
           ligand_id |-> unique[i],
           site |-> t._grouped_by_ligand_view[unique[i]][j]] :
            j \in {k \in 1..Len(t._grouped_by_ligand_view[unique[i]]) :
                     Max(t._grouped_by_ligand_view[unique[i]][k][1], view_start_aa)
                       <= Min(t._grouped_by_ligand_view[unique[i]][k][2], view_end_aa)}} :
         i \in 1..Len(unique)}

\* the interaction contexts a caller hands to LigandInteractionTrack
LigandContexts == [ligand_id : Ligands, binding_site_uniprot_residues : SegLists]

----------------------------------------------------------------------------
(* InterProTrack *)

\* InterProTrack.__init__ defaults
ip_domain_height == 200
ip_domain_spacing == 50
ip_full_mode_padding == 50
ip_collapse_mode_padding == 50

Accessions == {"PF00001", "PF00002"}

\* InterProTrack.__init__
InterProTrackInit(domain_data, plotting_option) ==
    [kind |-> "interpro",
     plotting_option |-> plotting_option,
     domain_data_orig |-> domain_data,
     padding |-> IF plotting_option = "full" THEN ip_full_mode_padding
                 ELSE ip_collapse_mode_padding,
     height |-> IF domain_data = <<>> THEN ip_domain_height ELSE 0,
     temp_visible_domains |-> <<>>,
     all_segments_for_collapse |-> <<>>,
     _visible_domains_full_mode |-> <<>>,
     _merged_domain_regions_view |-> <<>>]

\* InterProTrack._parse_domain_locations: the (start, end) tuples of the
\* annotation's location dicts
parse_domain_locations(annotation) ==
    [j \in 1..Len(annotation.locations) |->
        <<annotation.locations[j].start, annotation.locations[j].end>>]

\* InterProTrack._calculate_merged_regions
IPCalculateMergedRegions(all_segments_flat) ==
    IF all_segments_flat = <<>> THEN <<>>
    ELSE SentinelSweep(SortedSegs(all_segments_flat), 1, -1, -1, <<>>)

\* the segments of a list that overlap the view, in list order (lines 149-156)
RECURSIVE SegsInView(_, _, _, _)
SegsInView(segments, n, view_start_aa, view_end_aa) ==
    IF n = 0 THEN <<>>
    ELSE LET rest == SegsInView(segments, n - 1, view_start_aa, view_end_aa)
             seg_start == segments[n][1]
             seg_end == segments[n][2]
         IN IF ~(seg_end < view_start_aa \/ seg_start > view_end_aa)
            THEN Append(rest, segments[n])
            ELSE rest

\* the collection without the second visibility test of lines 153-155: every
\* segment of a visible annotation is collected
IPSegmentsForCollapse_All(segments, view_start_aa, view_end_aa) == segments

\* lines 148-156: the segments of a visible annotation collected for merging
IPSegmentsForCollapse(segments, view_start_aa, view_end_aa) ==
    SegsInView(segments, Len(segments), view_start_aa, view_end_aa)

\* the loop of lines 138-156 over the first n annotations: the local
\* temp_visible_domains (indices into domain_data_orig) and
\* all_segments_for_collapse
RECURSIVE IPFilter(_, _, _, _, _)
IPFilter(data, n, plotting_option, view_start_aa, view_end_aa) ==
    IF n = 0 THEN [temp_visible_domains |-> <<>>, all_segments_for_collapse |-> <<>>]
    ELSE LET acc == IPFilter(data, n - 1, plotting_option, view_start_aa, view_end_aa)
             segments == parse_domain_locations(data[n])
             is_visible_in_view ==
                 \E j \in 1..Len(segments) :
                     ~(segments[j][2] < view_start_aa \/ segments[j][1] > view_end_aa)
         IN IF ~is_visible_in_view THEN acc
            ELSE [temp_visible_domains |-> Append(acc.temp_visible_domains, n),
                  all_segments_for_collapse |->
                      IF plotting_option = "collapse"
                      THEN acc.all_segments_for_collapse
                           \o IPSegmentsForCollapse(segments, view_start_aa,
                                                    view_end_aa)
                      ELSE acc.all_segments_for_collapse]

\* sorted(temp_visible_domains, key=accession): stable insertion of the
\* annotation index x into an already sorted list of indices
RECURSIVE IPInsertByAccession(_, _, _)
IPInsertByAccession(data, sorted, x) ==
    IF sorted = <<>> THEN <<x>>
    ELSE LET last == sorted[Len(sorted)]
         IN IF StrRank(data[last].accession) <= StrRank(data[x].accession)
            THEN Append(sorted, x)
            ELSE Append(IPInsertByAccession(data, SubSeq(sorted, 1, Len(sorted) - 1), x),
                        last)

RECURSIVE IPSortedByAccession(_, _)
IPSortedByAccession(data, idx) ==
    IF idx = <<>> THEN <<>>
    ELSE IPInsertByAccession(data,
                             IPSortedByAccession(data, SubSeq(idx, 1, Len(idx) - 1)),
                             idx[Len(idx)])

\* InterProTrack._layout_entries_for_view: the track after the call
InterProLayoutEntriesForView(t, view_start_aa, view_end_aa) ==
    LET f == IPFilter(t.domain_data_orig, Len(t.domain_data_orig), t.plotting_option,
                      view_start_aa, view_end_aa)
        t1 == [t EXCEPT !.padding = IF t.plotting_option = "collapse"
                                    THEN ip_collapse_mode_padding
                                    ELSE ip_full_mode_padding,
                        !.temp_visible_domains = f.temp_visible_domains,
                        !.all_segments_for_collapse = f.all_segments_for_collapse,
                        !._visible_domains_full_mode =
                            IPSortedByAccession(t.domain_data_orig,
                                                f.temp_visible_domains)]
        num_lanes == Len(t1._visible_domains_full_mode)
        t2 == IF t.plotting_option = "full"
              THEN [t1 EXCEPT !.height =
                       IF num_lanes > 0
                       THEN num_lanes * ip_domain_height
                            + Max(0, num_lanes - 1) * ip_domain_spacing
                       ELSE ip_domain_height]
              ELSE [t1 EXCEPT !._merged_domain_regions_view =
                                  IPCalculateMergedRegions(f.all_segments_for_collapse),
                              !.height = ip_domain_height]
    IN \* lines 184-192
       IF \/ t2.domain_data_orig = <<>>
          \/ (t2.plotting_option = "full" /\ t2._visible_domains_full_mode = <<>>)
          \/ (t2.plotting_option = "collapse" /\ t2._merged_domain_regions_view = <<>>)
       THEN [t2 EXCEPT !.height = ip_domain_height]
       ELSE t2

\* InterProTrack._draw_full_mode, lines 280-287: the segments of an annotation
\* that the lane of the annotation shows, each clipped to the view
IPDrawnSegments(annotation, view_start_aa, view_end_aa) ==
    LET segments == parse_domain_locations(annotation)
        shown(seg) == Max(seg[1], view_start_aa) < Min(seg[2], view_end_aa)
        clip(seg) == <<Max(seg[1], view_start_aa), Min(seg[2], view_end_aa)>>
        kept == SelectSeq(segments, shown)
    IN [j \in 1..Len(kept) |-> <<kept[j], clip(kept[j])>>]

\* the location dicts of a segment list
Locations(sl) == [j \in 1..Len(sl) |-> [start |-> sl[j][1], end |-> sl[j][2]]]

\* the domain annotations a caller hands to InterProTrack
InterProAnnotations ==
    {[accession |-> a, locations |-> Locations(sl)] : a \in Accessions, sl \in SegLists}

----------------------------------------------------------------------------
(* TEDDomainsTrack *)

\* TEDDomainsTrack.__init__ defaults
ted_domain_height == 200
ted_domain_spacing == 100
ted_full_mode_padding == 150
ted_collapse_mode_padding == 20

\* TEDDomainsTrack.__init__
TEDTrackInit(ted_annotations, plotting_option) ==
    [kind |-> "ted",
     plotting_option |-> plotting_option,
     ted_annotations_orig |-> ted_annotations,
     padding |-> IF plotting_option = "full" THEN ted_full_mode_padding
                 ELSE ted_collapse_mode_padding,
     height |-> IF ted_annotations = <<>> THEN ted_domain_height ELSE 0,
     all_segments_for_collapse |-> <<>>,
     _visible_annotations_full_mode |-> <<>>,
     _parsed_segments_for_full_mode |-> <<>>,
     _merged_ted_regions_view |-> <<>>]

\* TEDDomainsTrack._parse_chopping_string on the first n parts of a chopping;
\* a part "s-e" is written <<s, e>>, and a part with s > e is dropped
RECURSIVE parse_chopping_string(_, _)
parse_chopping_string(chopping, n) ==
    IF n = 0 THEN <<>>
    ELSE LET rest == parse_chopping_string(chopping, n - 1)
         IN IF chopping[n][1] <= chopping[n][2]
            THEN Append(rest, chopping[n])
            ELSE rest

\* TEDDomainsTrack._calculate_merged_ted_regions
calculate_merged_ted_regions(all_segments) ==
    IF all_segments = <<>> THEN <<>>
    ELSE SentinelSweep(SortedSegs(all_segments), 1, -1, -1, <<>>)

\* the loop of lines 135-155 over the first n annotations: the track with
\* _visible_annotations_full_mode (indices into ted_annotations_orig),
\* _parsed_segments_for_full_mode (a dict from such an index to its visible
\* segments) and the local all_segments_for_collapse
RECURSIVE TEDFilter(_, _, _, _, _)
TEDFilter(data, n, plotting_option, view_start_aa, view_end_aa) ==
    IF n = 0
    THEN [visible |-> <<>>, parsed |-> <<>>, all_segments_for_collapse |-> <<>>]
    ELSE LET acc == TEDFilter(data, n - 1, plotting_option, view_start_aa, view_end_aa)
             segments == parse_chopping_string(data[n].chopping, Len(data[n].chopping))
             current_annotation_visible_segments ==
                 SegsInView(segments, Len(segments), view_start_aa, view_end_aa)
             annotation_is_visible == current_annotation_visible_segments # <<>>
         IN [visible |-> IF annotation_is_visible /\ plotting_option = "full"
                         THEN Append(acc.visible, n)
                         ELSE acc.visible,
             parsed |-> IF annotation_is_visible /\ plotting_option = "full"
                        THEN [k \in (DOMAIN acc.parsed) \cup {n} |->
                                 IF k = n THEN current_annotation_visible_segments
                                 ELSE acc.parsed[k]]
                        ELSE acc.parsed,
             all_segments_for_collapse |->
                 IF plotting_option = "collapse"
                 THEN acc.all_segments_for_collapse
                      \o current_annotation_visible_segments
                 ELSE acc.all_segments_for_collapse]

\* TEDDomainsTrack._layout_entries_for_view: the track after the call
TEDLayoutEntriesForView(t, view_start_aa, view_end_aa) ==
    LET f == TEDFilter(t.ted_annotations_orig, Len(t.ted_annotations_orig),
                       t.plotting_option, view_start_aa, view_end_aa)
        t1 == [t EXCEPT !.padding = IF t.plotting_option = "collapse"
                                    THEN ted_collapse_mode_padding
                                    ELSE ted_full_mode_padding,
                        !.all_segments_for_collapse = f.all_segments_for_collapse,
                        !._visible_annotations_full_mode = f.visible,
                        !._parsed_segments_for_full_mode = f.parsed]
        num_lanes == Len(t1._visible_annotations_full_mode)
        t2 == IF t.plotting_option = "full"
              THEN [t1 EXCEPT !.height =
                       IF num_lanes > 0
                       THEN num_lanes * ted_domain_height
                            + Max(0, num_lanes - 1) * ted_domain_spacing
                       ELSE ted_domain_height]
              ELSE [t1 EXCEPT !._merged_ted_regions_view =
                                  calculate_merged_ted_regions(
                                      f.all_segments_for_collapse),
                              !.height = ted_domain_height]
    IN \* lines 172-182
       IF \/ t2.ted_annotations_orig = <<>>
          \/ (t2.plotting_option = "full" /\ t2._visible_annotations_full_mode = <<>>)
          \/ (t2.plotting_option = "collapse" /\ t2._merged_ted_regions_view = <<>>)
       THEN [t2 EXCEPT !.height = ted_domain_height]
       ELSE t2

\* the annotations a caller hands to TEDDomainsTrack
TEDAnnotations == [chopping : SegLists]

----------------------------------------------------------------------------
(* The caller's annotation list *)

\* no list was handed to a constructor
NoCaller == [handed |-> FALSE]

\* the list supplied to the constructor and the same list object now
Handed(supplied, annotation_data) ==
    [handed |-> TRUE, supplied |-> supplied, annotation_data |-> annotation_data]

\* PDBTrack.__init__ sorting the caller's list in place (pdb_data.sort(...))
PDBArgAfterInit_SortedInPlace(pdb_data) == PDBSorted(pdb_data)

\* the caller's list after PDBTrack.__init__: sorted(pdb_data, key=...) of
\* lines 42-44 builds a new list and leaves pdb_data as it is
PDBArgAfterInit(pdb_data) == pdb_data

\* the caller's dict after one pass of the loop body of
\* _process_custom_ann_data: item = item_orig.copy() (line 95), and every
\* write of lines 101-147 changes item, the copy
CustomCallerItem(item_orig, item) == item_orig

\* the caller's list after CustomTrack.__init__: __init__ stores it and
\* _process_custom_ann_data appends to its own processed_data
CustomArgAfterInit(raw_data) ==
    [j \in 1..Len(raw_data) |->
        CustomCallerItem(raw_data[j], CustomProcessItem(raw_data[j]).item)]

\* the caller's list after the __init__ of LigandInteractionTrack,
\* InterProTrack and TEDDomainsTrack, which store the reference and write
\* nothing to the list
StoredArgAfterInit(data) == data

----------------------------------------------------------------------------
(* Operations: the constructor call of SpecCustom and, for each track kind,  *)
(* a call of _layout_entries_for_view with some view window                  *)

\* does the last layout of track t show data
ShowsData(t) ==
    CASE t.kind = "pdb" -> t.visible_pdb_data # <<>>
      [] t.kind = "ligand" -> t._unique_ligands_view # <<>>
      [] t.kind = "interpro" -> t._visible_domains_full_mode # <<>>
      [] t.kind = "ted" -> \/ t._visible_annotations_full_mode # <<>>
                           \/ t.all_segments_for_collapse # <<>>
      [] t.kind = "custom" -> t._visible_annotations_in_view # <<>>
      [] OTHER -> FALSE

\* the history after one more call
EarlierAfterCall ==
    IF view = NoView THEN "none"
    ELSE IF earlier = "data" \/ ShowsData(track) THEN "data"
    ELSE "empty"

CustomConstruct ==
    /\ track.kind = "pending"
    /\ track' = CustomTrackInit(track.annotation_data)
    /\ caller' = [caller EXCEPT !.annotation_data = CustomArgAfterInit(@)]
    /\ UNCHANGED <<view, earlier, plot, call>>

PDBLayout ==
    /\ track.kind = "pdb"
    /\ \E w \in Views :
         /\ track' = PDBLayoutEntriesForView(track, w[1], w[2])
         /\ view' = w
    /\ earlier' = EarlierAfterCall
    /\ UNCHANGED <<plot, call, caller>>

LigandLayout ==
    /\ track.kind = "ligand"
    /\ \E w \in Views :
         /\ track' = LigandLayoutEntriesForView(track, w[1], w[2])
         /\ view' = w
    /\ earlier' = EarlierAfterCall
    /\ UNCHANGED <<plot, call, caller>>

InterProLayout ==
    /\ track.kind = "interpro"
    /\ \E w \in Views :
         /\ track' = InterProLayoutEntriesForView(track, w[1], w[2])
         /\ view' = w
    /\ earlier' = EarlierAfterCall
    /\ UNCHANGED <<plot, call, caller>>

TEDLayout ==
    /\ track.kind = "ted"
    /\ \E w \in Views :
         /\ track' = TEDLayoutEntriesForView(track, w[1], w[2])
         /\ view' = w
    /\ earlier' = EarlierAfterCall
    /\ UNCHANGED <<plot, call, caller>>

CustomLayout ==
    /\ track.kind = "custom"
    /\ track.raised = ""
    /\ \E w \in Views :
         /\ track' = CustomLayoutEntriesForView(track, w[1], w[2])
         /\ view' = w
    /\ earlier' = EarlierAfterCall
    /\ UNCHANGED <<plot, call, caller>>

----------------------------------------------------------------------------
(* Specification *)

InitPDB ==
    \E pdb_data \in BoundedSeq(PDBEntries, MaxRecs), opt \in PlottingOptions :
        /\ track = PDBTrackInit(pdb_data, opt)
        /\ caller = Handed(pdb_data, PDBArgAfterInit(pdb_data))

InitLigand ==
    \E interaction_data \in BoundedSeq(LigandContexts, MaxAnns),
       opt \in PlottingOptions :
        /\ track = LigandTrackInit(interaction_data, opt)
        /\ caller = Handed(interaction_data, StoredArgAfterInit(interaction_data))

InitInterPro ==
    \E domain_data \in BoundedSeq(InterProAnnotations, MaxAnns),
       opt \in PlottingOptions :
        /\ track = InterProTrackInit(domain_data, opt)
        /\ caller = Handed(domain_data, StoredArgAfterInit(domain_data))

InitTED ==
    \E ted_annotations \in BoundedSeq(TEDAnnotations, MaxAnns),
       opt \in PlottingOptions :
        /\ track = TEDTrackInit(ted_annotations, opt)
        /\ caller = Handed(ted_annotations, StoredArgAfterInit(ted_annotations))

InitCustom ==
    \E annotation_data \in BoundedSeq(CustomPlainItems, MaxRecs) :
        /\ track = CustomTrackInit(annotation_data)
        /\ caller = Handed(annotation_data, CustomArgAfterInit(annotation_data))

Init ==
    /\ view = NoView
    /\ earlier = "none"
    /\ plot = NoPlot
    /\ call = NoCall
    /\ \/ InitPDB
       \/ InitLigand
       \/ InitInterPro
       \/ InitTED
       \/ InitCustom

Next ==
    \/ PDBLayout
    \/ LigandLayout
    \/ InterProLayout
    \/ TEDLayout
    \/ CustomLayout

Spec == Init /\ [][Next]_vars

\* PDBTrack alone
InitPDBOnly ==
    /\ view = NoView
    /\ earlier = "none"
    /\ plot = NoPlot
    /\ call = NoCall
    /\ InitPDB

NextPDB == PDBLayout

SpecPDB == InitPDBOnly /\ [][NextPDB]_vars

\* CustomTrack's constructor on raw records of every shape
InitCustomRaw ==
    /\ view = NoView
    /\ earlier = "none"
    /\ plot = NoPlot
    /\ call = NoCall
    /\ \E annotation_data \in BoundedSeq(CustomRawItems, MaxRaw) :
           /\ track = PendingCustomTrack(annotation_data)
           /\ caller = Handed(annotation_data, annotation_data)

NextCustom == CustomConstruct

SpecCustom == InitCustomRaw /\ [][NextCustom]_vars

----------------------------------------------------------------------------
(* plot_protein_tracks *)

\* most tracks in the list handed to plot_protein_tracks
MaxTracks == 2
\* most records in the data of these tracks, all together
MaxPlotRecs == 2
\* longest sequence; the records of these tracks lie in 1..MaxLen
MaxLen == 3

\* plot_protein_tracks defaults and thresholds
figure_height_multiplier == 3
min_fig_height == 1000
min_plot_height_units == 100

\* an optional int argument: None, or the int v
NoArg == [given |-> FALSE, v |-> 0]
Arg(n) == [given |-> TRUE, v |-> n]

\* the window without the test of view_end_aa: the end is always
\* sequence_length
ViewRange_EndIgnored(sequence_length, view_start_aa, view_end_aa) ==
    [display_start |-> IF view_start_aa.given /\ view_start_aa.v > 0
                       THEN view_start_aa.v ELSE 1,
     display_end |-> sequence_length,
     warned |-> FALSE]

\* lines 45-67: the window handed to the tracks and whether the warning of
\* lines 63-65 is printed
ViewRange(sequence_length, view_start_aa, view_end_aa) ==
    LET display_start_0 ==
            IF view_start_aa.given /\ view_start_aa.v > 0 THEN view_start_aa.v ELSE 1
        display_end_0 ==
            IF /\ view_end_aa.given
               /\ view_end_aa.v <= sequence_length
               /\ view_end_aa.v > display_start_0
            THEN view_end_aa.v
            ELSE sequence_length
        \* lines 55-60
        w1 == IF sequence_length > 0 /\ display_start_0 >= display_end_0
              THEN <<1, sequence_length>>
              ELSE IF sequence_length = 0 THEN <<0, 1>>
              ELSE <<display_start_0, display_end_0>>
        \* lines 62-67
        warn == w1[1] >= w1[2] /\ sequence_length > 0
    IN [display_start |-> IF warn THEN 1 ELSE w1[1],
        display_end |-> IF warn THEN sequence_length ELSE w1[2],
        warned |-> warn]

\* line 75: sum(track.get_total_height() for track in tracks)
RECURSIVE SumTotalHeight(_)
SumTotalHeight(tracks) ==
    IF tracks = <<>> THEN 0
    ELSE SumTotalHeight(SubSeq(tracks, 1, Len(tracks) - 1))
         + get_total_height(tracks[Len(tracks)])

\* lines 76-82: the figure height for the total of line 75
FigureHeight(total_plot_height_units) ==
    IF total_plot_height_units <= min_plot_height_units THEN min_fig_height
    ELSE Max(min_fig_height, total_plot_height_units * figure_height_multiplier)

\* track.draw: the track after the call (every draw starts with
\* self._layout_entries_for_view(view_start_aa, view_end_aa))
TrackDraw(t, view_start_aa, view_end_aa) ==
    CASE t.kind = "pdb" -> PDBLayoutEntriesForView(t, view_start_aa, view_end_aa)
      [] t.kind = "custom" -> CustomLayoutEntriesForView(t, view_start_aa, view_end_aa)
      [] t.kind = "ligand" -> LigandLayoutEntriesForView(t, view_start_aa, view_end_aa)
      [] t.kind = "interpro" -> InterProLayoutEntriesForView(t, view_start_aa, view_end_aa)
      [] t.kind = "ted" -> TEDLayoutEntriesForView(t, view_start_aa, view_end_aa)

\* the baseline advanced by the content height alone, the padding left out
NextBaseline_ContentOnly(current_y_position, drawn) ==
    current_y_position + drawn.height

\* line 91: current_y_position += track.get_total_height(), after the draw
NextBaseline(current_y_position, drawn) ==
    current_y_position + get_total_height(drawn)

\* lines 88-91: the loop over reversed(tracks) from the n-th track down; acc
\* holds the tracks drawn so far, the window each draw was called with and
\* current_y_position
RECURSIVE DrawLoop(_, _, _, _)
DrawLoop(acc, n, display_start, display_end) ==
    IF n = 0 THEN acc
    ELSE LET drawn == TrackDraw(acc.tracks[n], display_start, display_end)
         IN DrawLoop([tracks |-> [acc.tracks EXCEPT ![n] = drawn],
                      drawn_with |-> [acc.drawn_with EXCEPT
                                         ![n] = <<display_start, display_end>>],
                      track_y_bottom |-> [acc.track_y_bottom EXCEPT
                                             ![n] = acc.current_y_position],
                      current_y_position |->
                          NextBaseline(acc.current_y_position, drawn)],
                     n - 1, display_start, display_end)

\* plot_protein_tracks(protein_id, sequence_length, tracks, view_start_aa =
\* ..., view_end_aa = ...) with figure_height not given: the record of the call
PlotProteinTracksCall(sequence_length, tracks, view_start_aa, view_end_aa) ==
    LET r == ViewRange(sequence_length, view_start_aa, view_end_aa)
        total_plot_height_units == SumTotalHeight(tracks)
        loop == DrawLoop([tracks |-> tracks,
                          drawn_with |-> [i \in 1..Len(tracks) |-> NoView],
                          track_y_bottom |-> [i \in 1..Len(tracks) |-> 0],
                          current_y_position |-> 0],
                         Len(tracks), r.display_start, r.display_end)
        args == [called |-> TRUE,
                 sequence_length |-> sequence_length,
                 view_start_aa |-> view_start_aa,
                 view_end_aa |-> view_end_aa]
    IN IF tracks = <<>>
       THEN \* lines 40-42
            [returned_early |-> TRUE, tracks |-> tracks, drawn_with |-> <<>>,
             track_y_bottom |-> <<>>,
             warned |-> FALSE, display_start |-> 0, display_end |-> 0,
             total_plot_height_units |-> 0, fig_h |-> 0,
             current_y_position |-> 0] @@ args
       ELSE \* tracks, drawn_with, track_y_bottom and current_y_position are
            \* those the loop ends with
            loop @@ r @@ [returned_early |-> FALSE,
                          total_plot_height_units |-> total_plot_height_units,
                          fig_h |-> FigureHeight(total_plot_height_units)] @@ args

\* the values a caller passes for view_start_aa and view_end_aa: None, a
\* negative int, zero, the positions of the sequence and one beyond it
ViewArgs == {NoArg} \cup {Arg(n) : n \in (0 - 1)..(MaxLen + 1)}

\* the tracks a caller hands to plot_protein_tracks: full-mode PDBTracks whose
\* records lie on the sequence
PlotEntries(sequence_length) ==
    {r \in [unp_start : 1..sequence_length, unp_end : 1..sequence_length] :
        r.unp_start <= r.unp_end}

\* the tracks with n records
PlotTracks(sequence_length, n) ==
    {PDBTrackInit(d, "full") : d \in [1..n -> PlotEntries(sequence_length)]}

\* the lists of k tracks with at most r records in all
RECURSIVE PlotTrackLists(_, _, _)
PlotTrackLists(sequence_length, k, r) ==
    IF k = 0 THEN {<<>>}
    ELSE UNION {{Append(tracks, t) :
                    tracks \in PlotTrackLists(sequence_length, k - 1, r - n),
                    t \in PlotTracks(sequence_length, n)} :
                n \in 0..r}

\* the program before its first plot_protein_tracks call: the tracks are
\* constructed and the sequence length is known
BeforePlot(sequence_length, tracks) ==
    [called |-> FALSE, sequence_length |-> sequence_length, tracks |-> tracks]

\* a call of plot_protein_tracks on the track objects of the program
PlotProteinTracks ==
    /\ \E view_start_aa \in ViewArgs, view_end_aa \in ViewArgs :
         plot' = PlotProteinTracksCall(plot.sequence_length, plot.tracks,
                                       view_start_aa, view_end_aa)
    /\ UNCHANGED <<track, view, earlier, call, caller>>

InitPlot ==
    /\ track = [kind |-> "none"]
    /\ call = NoCall
    /\ caller = NoCaller
    /\ view = NoView
    /\ earlier = "none"
    /\ \E sequence_length \in 0..MaxLen, k \in 0..MaxTracks :
         \E tracks \in PlotTrackLists(sequence_length, k, MaxPlotRecs) :
            plot = BeforePlot(sequence_length, tracks)

NextPlot == PlotProteinTracks

SpecPlot == InitPlot /\ [][NextPlot]_vars

----------------------------------------------------------------------------
(* data_retrieval: what the remote service replies and how a call ends      *)

\* What self.session.get / requests.get does: it raises a RequestException
\* that is no HTTPError (no connection, timeout), or it returns a response
\* with a status code and a content.  The content is empty (b""), text that
\* is not JSON, or the text of a JSON value.
EmptyContent == [form |-> "empty"]
InvalidContent == [form |-> "invalid"]
JsonContent(j) == [form |-> "json", json |-> j]
ConnectionFault == [fault |-> TRUE]
HttpReply(status_code, content) ==
    [fault |-> FALSE, status_code |-> status_code, content |-> content]

\* the replies of a service whose JSON values are those of J
Replies(J) ==
    {ConnectionFault}
    \cup {HttpReply(status_code, EmptyContent) : status_code \in {404, 500}}
    \cup {HttpReply(200, c) :
            c \in {EmptyContent, InvalidContent} \cup {JsonContent(j) : j \in J}}

\* how a call ends: it returns a value or it raises an exception
Return(v) == [raised |-> "", value |-> v]
Raise(e) == [raised |-> e]

\* the exception classes of the model and Python's isinstance on them;
\* requests.exceptions.JSONDecodeError derives from RequestException and,
\* through json.JSONDecodeError, from ValueError
IsRequestException(e) ==
    e \in {"RequestException", "ConnectionError", "HTTPError", "JSONDecodeError"}
IsValueError(e) == e \in {"ValueError", "JSONDecodeError"}

\* a JSON object that is empty: Python's {}
EmptyDict == [dict |-> "empty"]

----------------------------------------------------------------------------
(* PDBeClient *)

\* PDBeClient._make_request raising a KeyError, which no caller catches, for
\* a content that is not JSON
PDBeMakeRequest_JsonErrorEscapes(reply) ==
    IF reply.fault THEN Raise("ConnectionError")
    ELSE IF reply.status_code >= 400 THEN Raise("HTTPError")
    ELSE IF reply.content.form = "empty" THEN Return(EmptyDict)
    ELSE IF reply.content.form = "invalid" THEN Raise("KeyError")
    ELSE Return(reply.content.json)

\* PDBeClient._make_request, lines 72-103: session.get, raise_for_status,
\* the empty content, response.json(); an HTTPError and any other
\* RequestException are raised again, a JSONDecodeError becomes a ValueError
PDBeMakeRequest(reply) ==
    IF reply.fault THEN Raise("ConnectionError")
    ELSE IF reply.status_code >= 400 THEN Raise("HTTPError")
    ELSE IF reply.content.form = "empty" THEN Return(EmptyDict)
    ELSE IF reply.content.form = "invalid" THEN Raise("ValueError")
    ELSE Return(reply.content.json)

\* lines 130-142 on the first n entries of the response list: the list
\* processed_entries, or the exception int() raised on the way
RECURSIVE PDBeProcessEntries(_, _)
PDBeProcessEntries(pdb_entries_raw, n) ==
    IF n = 0 THEN [exc |-> "", processed_entries |-> <<>>]
    ELSE LET acc == PDBeProcessEntries(pdb_entries_raw, n - 1)
             entry == pdb_entries_raw[n]
             s == PyInt(entry.unp_start)
             e == PyInt(entry.unp_end)
         IN IF acc.exc # "" THEN acc
            ELSE IF entry.pdb_id # Absent /\ entry.unp_start # Absent
                    /\ entry.unp_end # Absent
            THEN IF s.exc # "" THEN [acc EXCEPT !.exc = s.exc]
                 ELSE IF e.exc # "" THEN [acc EXCEPT !.exc = e.exc]
                 ELSE [acc EXCEPT !.processed_entries =
                          Append(@, [pdb_id |-> entry.pdb_id,
                                     unp_start |-> s.v, unp_end |-> e.v])]
            ELSE acc

\* PDBeClient.get_pdb_coverage
get_pdb_coverage(reply) ==
    LET r == PDBeMakeRequest(reply)
    IN IF r.raised # ""
       THEN IF IsRequestException(r.raised) \/ IsValueError(r.raised)
            THEN Return(<<>>)
            ELSE r
       ELSE LET data == r.value
            IN IF data = EmptyDict \/ ~data.has_uniprot_id THEN Return(<<>>)
               ELSE LET p == PDBeProcessEntries(data.entries, Len(data.entries))
                    IN IF p.exc # "" THEN Raise(p.exc)
                       ELSE Return(p.processed_entries)

\* the values under 'unp_start' and 'unp_end' of a best_structures entry
CoverageValues == {Absent, NoneVal, BadStr, IntVal(1), StrVal(2)}

\* a best_structures entry: a dict that has or lacks 'pdb_id', 'unp_start'
\* and 'unp_end'
CoverageEntries ==
    [pdb_id : {Absent, StrVal(1)}, unp_start : CoverageValues,
     unp_end : CoverageValues]

\* the JSON objects of the best_structures endpoint: without the key of the
\* protein, or with a list of entries under it
CoverageJson ==
    {[has_uniprot_id |-> FALSE, entries |-> <<>>]}
    \cup [has_uniprot_id : {TRUE}, entries : BoundedSeq(CoverageEntries, MaxRaw)]

\* a JSON value that is not of the type the code tests for with isinstance
NotThat == [t |-> "other"]

\* lines 221-241 on the first n elements of 'residues': the list
\* interacting_residues_details (startCode and endCode left out), or the
\* exception int() raised on the way
RECURSIVE PDBeResidues(_, _)
PDBeResidues(residues_raw, n) ==
    IF n = 0 THEN [exc |-> "", details |-> <<>>]
    ELSE LET acc == PDBeResidues(residues_raw, n - 1)
             res_info == residues_raw[n]
         IN IF acc.exc # "" \/ res_info = NotThat THEN acc
            ELSE IF res_info.startIndex \notin {Absent, NoneVal}
                    /\ res_info.endIndex \notin {Absent, NoneVal}
            THEN LET s == PyInt(res_info.startIndex)
                     e == PyInt(res_info.endIndex)
                 IN IF s.exc # "" THEN [acc EXCEPT !.exc = s.exc]
                    ELSE IF e.exc # "" THEN [acc EXCEPT !.exc = e.exc]
                    ELSE [acc EXCEPT !.details =
                             Append(@, [startIndex |-> s.v, endIndex |-> e.v])]
            ELSE acc

\* lines 196-250 on the first n ligand entries: the list
\* processed_interactions ('pdb_id' left out), or the exception raised
RECURSIVE PDBeInteractions(_, _)
PDBeInteractions(ligand_interactions_raw, n) ==
    IF n = 0 THEN [exc |-> "", processed_interactions |-> <<>>]
    ELSE LET acc == PDBeInteractions(ligand_interactions_raw, n - 1)
             ligand_entry == ligand_interactions_raw[n]
         IN IF acc.exc # "" \/ ligand_entry = NotThat THEN acc
            ELSE IF ligand_entry.accession \in {Absent, NoneVal} THEN acc
            ELSE IF ~ligand_entry.residues_is_list THEN acc
            ELSE LET d == PDBeResidues(ligand_entry.residues,
                                       Len(ligand_entry.residues))
                 IN IF d.exc # "" THEN [acc EXCEPT !.exc = d.exc]
                    ELSE IF d.details # <<>>
                    THEN [acc EXCEPT !.processed_interactions =
                             Append(@, [ligand_id |-> ligand_entry.accession,
                                        binding_site_uniprot_residues |-> d.details])]
                    ELSE acc

\* PDBeClient.get_pdb_ligand_interactions
get_pdb_ligand_interactions(reply) ==
    LET r == PDBeMakeRequest(reply)
    IN IF r.raised # ""
       THEN IF IsRequestException(r.raised) \/ IsValueError(r.raised)
            THEN Return(<<>>)
            ELSE r
       ELSE LET data == r.value
            IN IF data = EmptyDict \/ ~data.has_uniprot_id THEN Return(<<>>)
               ELSE IF data.protein_data = NotThat THEN Return(<<>>)
               ELSE IF data.protein_data.dataType # "LIGAND BINDING SITES"
               THEN Return(<<>>)
               ELSE IF ~data.protein_data.data_is_list THEN Return(<<>>)
               ELSE LET p == PDBeInteractions(data.protein_data.data,
                                              Len(data.protein_data.data))
                    IN IF p.exc # "" THEN Raise(p.exc)
                       ELSE Return(p.processed_interactions)

\* the elements of a 'residues' list
LigandSiteResidues ==
    {NotThat} \cup [startIndex : {NoneVal, IntVal(1), BadStr},
                    endIndex : {NoneVal, IntVal(2)}]

\* the elements of the 'data' list of the ligand_sites endpoint
LigandSiteEntries ==
    {NotThat}
    \cup [accession : {Absent, StrVal(1)}, residues_is_list : {FALSE},
          residues : {<<>>}]
    \cup [accession : {Absent, StrVal(1)}, residues_is_list : {TRUE},
          residues : BoundedSeq(LigandSiteResidues, 1)]

\* the values under the key of the protein
LigandSiteProteinData ==
    {NotThat}
    \cup {[dataType |-> "OTHER", data_is_list |-> TRUE, data |-> <<>>],
          [dataType |-> "LIGAND BINDING SITES", data_is_list |-> FALSE, data |-> <<>>]}
    \cup [dataType : {"LIGAND BINDING SITES"}, data_is_list : {TRUE},
          data : BoundedSeq(LigandSiteEntries, MaxRaw)]

\* the JSON objects of the ligand_sites endpoint
LigandSiteJson ==
    {[has_uniprot_id |-> FALSE, protein_data |-> NotThat]}
    \cup [has_uniprot_id : {TRUE}, protein_data : LigandSiteProteinData]

----------------------------------------------------------------------------
(* TEDClient *)

\* TEDClient._make_request, lines 73-106
TEDMakeRequest(reply) ==
    IF reply.fault THEN Raise("ConnectionError")
    ELSE IF reply.status_code >= 400 THEN Raise("HTTPError")
    ELSE IF reply.content.form = "empty" THEN Return(EmptyDict)
    ELSE IF reply.content.form = "invalid" THEN Raise("ValueError")
    ELSE Return(reply.content.json)

\* dict.get(key): None for a key that is absent
DictGet(value) == IF value = Absent THEN NoneVal ELSE value

\* lines 139-150 on the first n items: the list processed_annotations, with
\* 'chopping' standing for the five fields copied with item.get
RECURSIVE TEDProcessItems(_, _)
TEDProcessItems(annotations_raw, n) ==
    IF n = 0 THEN <<>>
    ELSE LET rest == TEDProcessItems(annotations_raw, n - 1)
             item == annotations_raw[n]
         IN IF item = NotThat THEN rest
            ELSE Append(rest, [chopping |-> DictGet(item.chopping)])

\* TEDClient.get_TED_annotations
get_TED_annotations(reply) ==
    LET r == TEDMakeRequest(reply)
    IN IF r.raised # ""
       THEN IF IsRequestException(r.raised) \/ IsValueError(r.raised)
            THEN Return(<<>>)
            ELSE r
       ELSE LET data == r.value
            IN IF data = EmptyDict \/ ~data.has_data THEN Return(<<>>)
               ELSE IF ~data.data_is_list THEN Return(<<>>)
               ELSE Return(TEDProcessItems(data.data, Len(data.data)))

\* the elements of the 'data' list of the summary endpoint
TEDItems == {NotThat} \cup [chopping : {Absent, StrVal(1), StrVal(2)}]

\* the JSON objects of the summary endpoint
TEDJson ==
    {[has_data |-> FALSE, data_is_list |-> FALSE, data |-> <<>>],
     [has_data |-> TRUE, data_is_list |-> FALSE, data |-> <<>>]}
    \cup [has_data : {TRUE}, data_is_list : {TRUE},
          data : BoundedSeq(TEDItems, MaxRaw)]

----------------------------------------------------------------------------
(* InterProClient *)

\* the Python value None as the result of a call
NoneResult == [t |-> "none"]

\* InterProClient._fetch_protein_interpro_summary, lines 83-123: None for
\* an empty content and for status 404; any other HTTPError and any other
\* RequestException are raised again; a JSONDecodeError becomes a ValueError
fetch_protein_interpro_summary(reply) ==
    IF reply.fault THEN Raise("ConnectionError")
    ELSE IF reply.status_code >= 400
    THEN IF reply.status_code = 404 THEN Return(NoneResult) ELSE Raise("HTTPError")
    ELSE IF reply.content.form = "empty" THEN Return(NoneResult)
    ELSE IF reply.content.form = "invalid" THEN Raise("ValueError")
    ELSE Return(reply.content.json)

\* lines 189-205 on the first n fragments of the protein's locations:
\* entry_locations_on_protein; a fragment whose start or end int() rejects
\* with a ValueError is skipped with a warning
RECURSIVE IPClientFragments(_, _)
IPClientFragments(fragments, n) ==
    IF n = 0 THEN [exc |-> "", locations |-> <<>>]
    ELSE LET acc == IPClientFragments(fragments, n - 1)
             fragment == fragments[n]
             s == PyInt(fragment.start)
             e == PyInt(fragment.end)
         IN IF acc.exc # "" THEN acc
            ELSE IF fragment.start \in {Absent, NoneVal}
                    \/ fragment.end \in {Absent, NoneVal}
            THEN acc
            ELSE IF s.exc = "" /\ e.exc = ""
            THEN [acc EXCEPT !.locations = Append(@, [start |-> s.v, end |-> e.v])]
            ELSE IF s.exc \in {"", "ValueError"} /\ e.exc \in {"", "ValueError"}
            THEN acc
            ELSE [acc EXCEPT !.exc = "TypeError"]

\* lines 215-225: one annotation for each signature of the member database
IPClientSignatures(db_signatures, locations) ==
    [k \in 1..Len(db_signatures) |->
        [accession |-> db_signatures[k], locations |-> locations]]

\* the loop of lines 152-225 over the first n entries of 'results'; the
\* fragments of an entry are those of the protein asked for
RECURSIVE IPClientEntries(_, _, _)
IPClientEntries(results, n, member_db_key) ==
    IF n = 0 THEN [exc |-> "", annotations_list |-> <<>>]
    ELSE LET acc == IPClientEntries(results, n - 1, member_db_key)
             interpro_entry == results[n]
         IN IF acc.exc # "" \/ interpro_entry = NotThat THEN acc
            ELSE IF ~interpro_entry.metadata_is_dict THEN acc
            ELSE LET db_signatures == interpro_entry.member_databases[member_db_key]
                     f == IPClientFragments(interpro_entry.fragments,
                                            Len(interpro_entry.fragments))
                 IN IF db_signatures = <<>> THEN acc
                    ELSE IF f.exc # "" THEN [acc EXCEPT !.exc = f.exc]
                    ELSE [acc EXCEPT !.annotations_list =
                             @ \o IPClientSignatures(db_signatures, f.locations)]

\* InterProClient._extract_member_db_annotations
extract_member_db_annotations(interpro_summary_data, member_db_key) ==
    IF interpro_summary_data = NoneResult \/ ~interpro_summary_data.results_is_list
    THEN Return(<<>>)
    ELSE LET a == IPClientEntries(interpro_summary_data.results,
                                  Len(interpro_summary_data.results), member_db_key)
         IN IF a.exc # "" THEN Raise(a.exc) ELSE Return(a.annotations_list)

\* get_pfam_annotations and get_cathgene3d_annotations, which differ in the
\* member database key only
IPClientGet(reply, member_db_key) ==
    LET r == fetch_protein_interpro_summary(reply)
    IN IF r.raised # ""
       THEN IF IsRequestException(r.raised) \/ IsValueError(r.raised)
            THEN Return(<<>>)
            ELSE r
       ELSE extract_member_db_annotations(r.value, member_db_key)

\* InterProClient.get_pfam_annotations
get_pfam_annotations(reply) == IPClientGet(reply, "pfam")

\* InterProClient.get_cathgene3d_annotations
get_cathgene3d_annotations(reply) == IPClientGet(reply, "cathgene3d")

\* the fragments of a location
SummaryFragments ==
    [start : {NoneVal, IntVal(1), BadStr}, end : {IntVal(2), StrVal(3)}]

\* the entries of 'results': the signatures of the two member databases (an
\* empty list when the key is absent) and the fragments on the protein
SummaryEntries ==
    {NotThat}
    \cup {[metadata_is_dict |-> FALSE,
           member_databases |-> [pfam |-> <<>>, cathgene3d |-> <<>>],
           fragments |-> <<>>]}
    \cup [metadata_is_dict : {TRUE},
          member_databases : [pfam : {<<>>, <<"PF00001">>, <<"PF00001", "PF00002">>},
                              cathgene3d : {<<>>, <<"G3DSA:1">>}],
          fragments : BoundedSeq(SummaryFragments, 1)]

\* the JSON objects of the protein summary endpoint
SummaryJson ==
    {[results_is_list |-> FALSE, results |-> <<>>]}
    \cup [results_is_list : {TRUE}, results : BoundedSeq(SummaryEntries, MaxRaw)]

----------------------------------------------------------------------------
(* uniprot_client *)

\* get_protein_sequence_length, lines 47-68.  requests.get may raise; only an
\* HTTPError is caught, and turned into a ValueError for status 404;
\* response.json() raises a JSONDecodeError for a content that is empty or
\* not JSON; int() raises on a length it cannot convert
get_protein_sequence_length(reply) ==
    IF reply.fault THEN Raise("ConnectionError")
    ELSE IF reply.status_code >= 400
    THEN IF reply.status_code = 404 THEN Raise("ValueError") ELSE Raise("HTTPError")
    ELSE IF reply.content.form # "json" THEN Raise("JSONDecodeError")
    ELSE LET data == reply.content.json
         IN IF data.has_sequence /\ data.length # Absent
            THEN LET n == PyInt(data.length)
                 IN IF n.exc # "" THEN Raise(n.exc) ELSE Return(n.v)
            ELSE Raise("KeyError")

\* the JSON objects of the uniprotkb endpoint: without 'sequence', or with a
\* 'sequence' object that has or lacks 'length'
UniProtJson ==
    {[has_sequence |-> FALSE, length |-> Absent]}
    \cup [has_sequence : {TRUE},
          length : {Absent, NoneVal, BadStr, StrVal(3)}
                   \cup {IntVal(n) : n \in 0..MaxLen}]

----------------------------------------------------------------------------
(* AFDBClient *)

\* AFDBClient._make_api_request, lines 82-116
AFDBMakeApiRequest(reply) ==
    IF reply.fault THEN Raise("ConnectionError")
    ELSE IF reply.status_code >= 400 THEN Raise("HTTPError")
    ELSE IF reply.content.form = "empty" THEN Return(NoneResult)
    ELSE IF reply.content.form = "invalid" THEN Raise("ValueError")
    ELSE Return(reply.content.json)

\* AFDBClient.get_alphafold_entry_details: the first entry of the list, cut
\* down to the two URLs get_alphafold_data reads, or None
get_alphafold_entry_details(reply) ==
    LET r == AFDBMakeApiRequest(reply)
    IN IF r.raised # ""
       THEN IF IsRequestException(r.raised) \/ IsValueError(r.raised)
            THEN Return(NoneResult)
            ELSE r
       ELSE LET data == r.value
            IN IF data # NoneResult /\ data.is_list /\ Len(data.entries) > 0
               THEN Return([cifUrl |-> DictGet(data.entries[1].cifUrl),
                            amAnnotationsUrl |-> DictGet(data.entries[1].amAnnotationsUrl)])
               ELSE Return(NoneResult)

\* AFDBClient._fetch_file_content, lines 133-147: the text of the file; a
\* RequestException is raised again, and content_bytes.decode raises a
\* UnicodeDecodeError on bytes that are not UTF-8
AFDBFetchFileContent(file_reply) ==
    IF file_reply.fault THEN Raise("ConnectionError")
    ELSE IF file_reply.status_code >= 400 THEN Raise("HTTPError")
    ELSE IF file_reply.content.form = "undecodable" THEN Raise("UnicodeDecodeError")
    ELSE Return(file_reply.content)

\* _parse_plddt_from_cif_content and _parse_alphamissense_csv_content: the
\* scores in the text, and [] for a text the parser cannot read
AFDBParse(content) ==
    IF content.form = "scores" THEN content.scores ELSE <<>>

\* results[key] = value
DictSet(results, key, value) ==
    [k \in (DOMAIN results) \cup {key} |-> IF k = key THEN value ELSE results[k]]

\* lines 349-350: results[req_type] = [] for the first n requested types
RECURSIVE AFDBAllEmpty(_, _)
AFDBAllEmpty(requested_data_types, n) ==
    IF n = 0 THEN <<>>
    ELSE DictSet(AFDBAllEmpty(requested_data_types, n - 1),
                 requested_data_types[n], <<>>)

\* one of the two blocks of get_alphafold_data with the except clause left
\* out: a failed fetch ends the call
AFDBOneType_NoExcept(acc, url, file_reply, key) ==
    IF acc.raised # "" THEN acc
    ELSE IF url # NoneVal
    THEN LET c == AFDBFetchFileContent(file_reply)
             fetched == acc.fetched \cup {key}
         IN IF c.raised # ""
            THEN [acc EXCEPT !.raised = c.raised, !.fetched = fetched]
            ELSE [acc EXCEPT !.fetched = fetched,
                             !.results = DictSet(@, key,
                                 IF c.value.form # "empty" THEN AFDBParse(c.value)
                                 ELSE <<>>)]
    ELSE [acc EXCEPT !.results = DictSet(@, key, <<>>)]

\* one of the two blocks of get_alphafold_data, lines 353-372 for 'plddt'
\* and 374-403 for 'alphamissense': with a URL the file is fetched and, when
\* its text is not empty, parsed; any exception gives []; without a URL []
AFDBOneType(acc, url, file_reply, key) ==
    IF acc.raised # "" THEN acc
    ELSE IF url # NoneVal
    THEN LET c == AFDBFetchFileContent(file_reply)
             fetched == acc.fetched \cup {key}
         IN IF c.raised # ""
            THEN [acc EXCEPT !.fetched = fetched,
                             !.results = DictSet(@, key, <<>>)]
            ELSE [acc EXCEPT !.fetched = fetched,
                             !.results = DictSet(@, key,
                                 IF c.value.form # "empty" THEN AFDBParse(c.value)
                                 ELSE <<>>)]
    ELSE [acc EXCEPT !.results = DictSet(@, key, <<>>)]

\* AFDBClient.get_alphafold_data: how the call ends, the dict results and
\* the files it fetched (named by their data type)
get_alphafold_data(reply, cif_reply, am_reply, requested_data_types) ==
    LET d == get_alphafold_entry_details(reply)
        start == [raised |-> "", results |-> <<>>, fetched |-> {}]
    IN IF d.raised # "" THEN [start EXCEPT !.raised = d.raised]
       ELSE IF d.value = NoneResult
       THEN [start EXCEPT !.results =
                AFDBAllEmpty(requested_data_types, Len(requested_data_types))]
       ELSE LET entry_details == d.value
                p == IF "plddt" \in Range(requested_data_types)
                     THEN AFDBOneType(start, entry_details.cifUrl, cif_reply, "plddt")
                     ELSE start
            IN IF "alphamissense" \in Range(requested_data_types)
               THEN AFDBOneType(p, entry_details.amAnnotationsUrl, am_reply,
                                "alphamissense")
               ELSE p

\* the JSON values of the prediction endpoint: not a list, or a list of
\* entries that have or lack the two URLs
AFDBEntries == [cifUrl : {Absent, StrVal(1)}, amAnnotationsUrl : {Absent, StrVal(2)}]
AFDBJson ==
    {[is_list |-> FALSE, entries |-> <<>>]}
    \cup [is_list : {TRUE}, entries : BoundedSeq(AFDBEntries, 1)]

\* what the download of a file does: as for the API, with contents that are
\* empty, not UTF-8, not in the format of the file, or a file of scores
AFDBFileReplies ==
    {ConnectionFault, HttpReply(404, EmptyContent)}
    \cup {HttpReply(200, c) :
            c \in {EmptyContent, [form |-> "undecodable"], [form |-> "unparseable"],
                   [form |-> "scores", scores |-> <<1>>],
                   [form |-> "scores", scores |-> <<1, 2>>]}}

\* the lists of data types a caller asks for
AFDBRequests ==
    {<<>>, <<"plddt">>, <<"alphamissense">>, <<"plddt", "alphamissense">>,
     <<"alphamissense", "plddt">>}

----------------------------------------------------------------------------
(* Calls of the data_retrieval functions: a call is pending with the reply  *)
(* the service is going to give, then done with its outcome                 *)

\* a call of function f about to be made, the service replying with reply
Pending(f, reply) == [op |-> "pending", function |-> f, reply |-> reply]

\* the call c made, with how it ended
Done(c, outcome) == [c EXCEPT !.op = "done"] @@ [outcome |-> outcome]

\* the step of a pending call of function f that ends with outcome
CallOf(f, outcome) ==
    /\ call.op = "pending"
    /\ call.function = f
    /\ call' = Done(call, outcome)
    /\ UNCHANGED <<track, view, earlier, plot, caller>>

GetPdbCoverage ==
    CallOf("get_pdb_coverage", get_pdb_coverage(call.reply))

GetPdbLigandInteractions ==
    CallOf("get_pdb_ligand_interactions", get_pdb_ligand_interactions(call.reply))

GetTEDAnnotations ==
    CallOf("get_TED_annotations", get_TED_annotations(call.reply))

FetchProteinInterproSummary ==
    CallOf("_fetch_protein_interpro_summary",
           fetch_protein_interpro_summary(call.reply))

GetPfamAnnotations ==
    CallOf("get_pfam_annotations", get_pfam_annotations(call.reply))

GetCathgene3dAnnotations ==
    CallOf("get_cathgene3d_annotations", get_cathgene3d_annotations(call.reply))

GetProteinSequenceLength ==
    CallOf("get_protein_sequence_length", get_protein_sequence_length(call.reply))

GetAlphafoldData ==
    CallOf("get_alphafold_data",
           get_alphafold_data(call.reply, call.cif_reply, call.am_reply,
                              call.requested_data_types))

InitClient ==
    /\ caller = NoCaller
    /\ track = [kind |-> "none"]
    /\ view = NoView
    /\ earlier = "none"
    /\ plot = NoPlot
    /\ \/ \E reply \in Replies(CoverageJson) :
            call = Pending("get_pdb_coverage", reply)
       \/ \E reply \in Replies(LigandSiteJson) :
            call = Pending("get_pdb_ligand_interactions", reply)
       \/ \E reply \in Replies(TEDJson) :
            call = Pending("get_TED_annotations", reply)
       \/ \E reply \in Replies(SummaryJson),
             f \in {"_fetch_protein_interpro_summary", "get_pfam_annotations",
                    "get_cathgene3d_annotations"} :
            call = Pending(f, reply)
       \/ \E reply \in Replies(UniProtJson) :
            call = Pending("get_protein_sequence_length", reply)
       \/ \E reply \in Replies(AFDBJson), cif_reply \in AFDBFileReplies,
             am_reply \in AFDBFileReplies, requested_data_types \in AFDBRequests :
            call = Pending("get_alphafold_data", reply)
                   @@ [cif_reply |-> cif_reply, am_reply |-> am_reply,
                       requested_data_types |-> requested_data_types]

NextClient ==
    \/ GetPdbCoverage
    \/ GetPdbLigandInteractions
    \/ GetTEDAnnotations
    \/ FetchProteinInterproSummary
    \/ GetPfamAnnotations
    \/ GetCathgene3dAnnotations
    \/ GetProteinSequenceLength
    \/ GetAlphafoldData

SpecClient == InitClient /\ [][NextClient]_vars

----------------------------------------------------------------------------
(* Vocabulary of the properties *)

LaidOut == view # NoView

\* the span [s, e] overlaps the last view window
Overlaps(s, e) == ~(e < view[1] \/ s > view[2])
OverlapsSeg(seg) == Overlaps(seg[1], seg[2])

StrictlyIncreasing(sq) == \A i \in 1..(Len(sq) - 1) : sq[i] < sq[i + 1]

\* the segments of a list that overlap the last view window, in list order
Kept(segs) == SelectSeq(segs, OverlapsSeg)

\* the concatenation of the lists of a list of lists
RECURSIVE Flatten(_)
Flatten(lists) ==
    IF lists = <<>> THEN <<>>
    ELSE Flatten(SubSeq(lists, 1, Len(lists) - 1)) \o lists[Len(lists)]

Collapsible == {"pdb", "ligand", "interpro", "ted"}
IsFull == track.kind = "custom" \/ track.plotting_option = "full"
IsCollapse == track.kind \in Collapsible /\ track.plotting_option = "collapse"

\* the input spans of the track, annotation by annotation
SpanLists ==
    CASE track.kind = "pdb" ->
           [i \in 1..Len(track.pdb_data_orig) |->
               <<<<track.pdb_data_orig[i].unp_start, track.pdb_data_orig[i].unp_end>>>>]
      [] track.kind = "ligand" ->
           [i \in 1..Len(track.interaction_data_orig) |->
               track.interaction_data_orig[i].binding_site_uniprot_residues]
      [] track.kind = "interpro" ->
           [i \in 1..Len(track.domain_data_orig) |->
               [j \in 1..Len(track.domain_data_orig[i].locations) |->
                   <<track.domain_data_orig[i].locations[j].start,
                     track.domain_data_orig[i].locations[j].end>>]]
      [] track.kind = "ted" ->
           [i \in 1..Len(track.ted_annotations_orig) |->
               track.ted_annotations_orig[i].chopping]
      [] track.kind = "custom" ->
           [i \in 1..Len(track.processed_annotations) |->
               <<<<track.processed_annotations[i].start,
                   track.processed_annotations[i].end>>>>]

\* the input spans that overlap the last view window
VisibleSpans == Range(Kept(Flatten(SpanLists)))

\* the annotations with a span that overlaps the last view window
VisibleAnnotations == {i \in 1..Len(SpanLists) : Kept(SpanLists[i]) # <<>>}

\* the merged regions of the last layout
MergedRegions ==
    CASE track.kind = "pdb" -> track._merged_regions_view
      [] track.kind = "ligand" -> track._merged_ligand_sites_view
      [] track.kind = "interpro" -> track._merged_domain_regions_view
      [] track.kind = "ted" -> track._merged_ted_regions_view
      [] OTHER -> <<>>

\* the number of lanes of the last layout
NumLanes ==
    CASE track.kind = "pdb" -> track._num_lanes_view
      [] track.kind = "ligand" -> track._num_ligand_lanes_view
      [] track.kind = "interpro" -> Len(track._visible_domains_full_mode)
      [] track.kind = "ted" -> Len(track._visible_annotations_full_mode)
      [] track.kind = "custom" -> Len(track._visible_annotations_in_view)

RowHeight ==
    CASE track.kind = "pdb" -> pdb_bar_height
      [] track.kind = "ligand" -> ligand_site_height
      [] track.kind = "interpro" -> ip_domain_height
      [] track.kind = "ted" -> ted_domain_height
      [] track.kind = "custom" -> custom_ann_height

RowSpacing ==
    CASE track.kind = "pdb" -> pdb_bar_vertical_spacing
      [] track.kind = "ligand" -> ligand_spacing
      [] track.kind = "interpro" -> ip_domain_spacing
      [] track.kind = "ted" -> ted_domain_spacing
      [] track.kind = "custom" -> custom_ann_spacing

----------------------------------------------------------------------------
(* C1 *)

\* the sites of ligand lig that overlap the view, context after context
LigandKept(lig) ==
    Kept(Flatten([i \in 1..Len(SpanLists) |->
                     IF track.interaction_data_orig[i].ligand_id = lig
                     THEN SpanLists[i] ELSE <<>>]))

----------------------------------------------------------------------------
(* C2, C3: PDBTrack in full mode *)

PDBFull == LaidOut /\ track.kind = "pdb" /\ track.plotting_option = "full"

\* the span of pdb_data_orig[i] clipped to the last view window
ClipStart(i) == Max(track.pdb_data_orig[i].unp_start, view[1])
ClipEnd(i) == Min(track.pdb_data_orig[i].unp_end, view[2])

\* the lanes in use after the first j - 1 assignments, and the end coordinate
\* of such a lane: the clipped end of the last record put on it
LanesBefore(j) == {track._lanes_assignment_view[m].lane : m \in 1..(j - 1)}
LaneEndBefore(j, lane) ==
    LET last == CHOOSE m \in 1..(j - 1) :
                    /\ track._lanes_assignment_view[m].lane = lane
                    /\ \A m2 \in (m + 1)..(j - 1) :
                         track._lanes_assignment_view[m2].lane # lane
    IN ClipEnd(track._lanes_assignment_view[last].entry)

\* C2: first-fit lane assignment.  Each placed record is on the lowest lane
\* whose end, at the time the record is processed, is strictly less than the
\* record's clipped start, and that lane's end becomes the record's clipped end;
\* only when there is no such lane is the record on a new lane with the next
\* index.
C2_FirstFit ==
    PDBFull =>
      LET A == track._lanes_assignment_view
      IN /\ \A j \in 1..Len(A) :
              LET free == {l \in LanesBefore(j) :
                              LaneEndBefore(j, l) < ClipStart(A[j].entry)}
              IN IF free # {}
                 THEN /\ A[j].lane \in free
                      /\ \A l \in free : A[j].lane <= l
                 ELSE A[j].lane = Cardinality(LanesBefore(j))
         /\ Len(track.lanes_end_pos) = Cardinality(LanesBefore(Len(A) + 1))
         /\ \A l \in LanesBefore(Len(A) + 1) :
              track.lanes_end_pos[l + 1] = LaneEndBefore(Len(A) + 1, l)

\* three records placed, the third back on lane 0 while lane 1 is in use
C2_Witness ==
    /\ PDBFull
    /\ Len(track._lanes_assignment_view) = 3
    /\ track._lanes_assignment_view[1].lane = 0
    /\ track._lanes_assignment_view[2].lane = 1
    /\ track._lanes_assignment_view[3].lane = 0

\* C3: lane lower bound.  For any set K of records that pass the view filter
\* and whose spans, restricted to the view window, overlap one another, the
\* layout has at least |K| lanes.
C3_LaneLowerBound ==
    PDBFull =>
      \A K \in SUBSET Range(track.visible_pdb_data) :
          (\A a, b \in K : Max(ClipStart(a), ClipStart(b)) <= Min(ClipEnd(a), ClipEnd(b)))
            => track._num_lanes_view >= Cardinality(K)

----------------------------------------------------------------------------
(* C4: height *)

\* C4: after _layout_entries_for_view the content height of a track of any
\* kind is num_lanes * row_height + max(0, num_lanes - 1) * row_spacing in full
\* mode, row_height when num_lanes is 0, and exactly row_height in collapse
\* mode whatever the number of merged regions.
C4_Height ==
    LaidOut =>
      /\ IsFull =>
           track.height = IF NumLanes = 0 THEN RowHeight
                          ELSE NumLanes * RowHeight + Max(0, NumLanes - 1) * RowSpacing
      /\ IsCollapse => track.height = RowHeight

\* a full-mode PDBTrack laid out on three lanes
C4_Witness ==
    /\ LaidOut
    /\ track.kind = "pdb"
    /\ IsFull
    /\ NumLanes = 3
    /\ track.height = 3 * pdb_bar_height + 2 * pdb_bar_vertical_spacing

----------------------------------------------------------------------------
(* C5: merged regions *)

\* the span lies within the region
Within(span, region) == region[1] <= span[1] /\ span[2] <= region[2]

\* C5: in collapse mode of the four collapsible kinds the merged regions are
\* sorted by start ascending, no region r2 after a region r1 has
\* r2.start <= r1.end + 1, and every visible span lies within a region:
\* overlapping and adjacent spans are fused into one region.
C5_Merge ==
    (LaidOut /\ IsCollapse) =>
      LET M == MergedRegions
      IN /\ \A i, j \in 1..Len(M) :
              i < j => /\ M[i][1] < M[j][1]
                       /\ M[j][1] > M[i][2] + 1
         /\ \A r \in Range(M) : r[1] <= r[2]
         /\ \A span \in VisibleSpans : \E r \in Range(M) : Within(span, r)

\* two visible spans that only touch (the second starts right after the first
\* ends) are in one region, and a third span further on is a region of its own
C5_Witness ==
    /\ LaidOut
    /\ IsCollapse
    /\ track.kind = "ted"
    /\ Len(MergedRegions) = 2
    /\ \E a, b \in VisibleSpans :
         /\ b[1] = a[2] + 1
         /\ Within(a, MergedRegions[1])
         /\ Within(b, MergedRegions[1])

----------------------------------------------------------------------------
(* C6: nothing outside the view in the layout *)

\* the spans on the lanes of the last layout
LaneSpans ==
    CASE track.kind = "pdb" ->
           {<<track.pdb_data_orig[track._lanes_assignment_view[j].entry].unp_start,
              track.pdb_data_orig[track._lanes_assignment_view[j].entry].unp_end>> :
                j \in 1..Len(track._lanes_assignment_view)}
      [] track.kind = "custom" ->
           {<<track.processed_annotations[i].start, track.processed_annotations[i].end>> :
                i \in Range(track._visible_annotations_in_view)}
      [] track.kind = "ligand" ->
           UNION {Range(track._grouped_by_ligand_view[lig]) :
                    lig \in Range(track._unique_ligands_view)}
      [] track.kind = "ted" ->
           UNION {Range(track._parsed_segments_for_full_mode[i]) :
                    i \in Range(track._visible_annotations_full_mode)}
      [] track.kind = "interpro" ->
           IF track.plotting_option = "collapse" THEN {}
           ELSE UNION {{d[1] : d \in Range(IPDrawnSegments(track.domain_data_orig[i],
                                                           view[1], view[2]))} :
                         i \in Range(track._visible_domains_full_mode)}

\* C6: in every kind and mode a span with end < view_start or start > view_end
\* is on no lane of the layout, and every position of a merged region is a
\* position of some span that passes the view filter.  (An InterProTrack lane
\* holds an annotation; the spans on it are the ones _draw_full_mode shows.)
C6_Exactness ==
    LaidOut =>
      /\ \A span \in LaneSpans : OverlapsSeg(span)
      /\ track.kind = "interpro" =>
           Range(track._visible_domains_full_mode) \subseteq VisibleAnnotations
      /\ \A r \in Range(MergedRegions) :
           \A p \in r[1]..r[2] :
              \E span \in VisibleSpans : span[1] <= p /\ p <= span[2]

\* a collapse-mode InterProTrack whose visible annotation has a location
\* outside the view, right next to a merged region
C6_Witness ==
    /\ LaidOut
    /\ IsCollapse
    /\ track.kind = "interpro"
    /\ MergedRegions # <<>>
    /\ \E i \in VisibleAnnotations :
         \E span \in Range(SpanLists[i]) :
            /\ ~OverlapsSeg(span)
            /\ \E r \in Range(MergedRegions) : span[1] = r[2] + 1

----------------------------------------------------------------------------
(* C7: no state is carried from one window to the next *)

\* a freshly constructed track with the data and the mode of the track,
\* laid out once with the last view window
FreshLayout ==
    CASE track.kind = "pdb" ->
           PDBLayoutEntriesForView(
               PDBTrackInit(track.pdb_data_orig, track.plotting_option),
               view[1], view[2])
      [] track.kind = "ligand" ->
           LigandLayoutEntriesForView(
               LigandTrackInit(track.interaction_data_orig, track.plotting_option),
               view[1], view[2])
      [] track.kind = "interpro" ->
           InterProLayoutEntriesForView(
               InterProTrackInit(track.domain_data_orig, track.plotting_option),
               view[1], view[2])
      [] track.kind = "ted" ->
           TEDLayoutEntriesForView(
               TEDTrackInit(track.ted_annotations_orig, track.plotting_option),
               view[1], view[2])
      [] track.kind = "custom" ->
           CustomLayoutEntriesForView(
               CustomTrackInit(track.annotation_data_orig), view[1], view[2])

\* C7: after any sequence of _layout_entries_for_view calls with arbitrary
\* view windows the track (lane assignment, merged regions, content height and
\* every other field) equals a freshly constructed track laid out once with the
\* last window.
C7_HistoryIndependent == LaidOut => track = FreshLayout

\* a window that shows nothing, reached after a window that placed records on
\* lanes of a full-mode PDBTrack
C7_Witness ==
    /\ LaidOut
    /\ earlier = "data"
    /\ track.kind = "pdb"
    /\ IsFull
    /\ Len(track.pdb_data_orig) >= 2
    /\ VisibleAnnotations = {}

----------------------------------------------------------------------------
(* C8: nothing visible *)

\* the lanes of the last layout are empty
NoLanes ==
    CASE track.kind = "pdb" -> track._lanes_assignment_view = <<>>
      [] track.kind = "ligand" -> /\ track._unique_ligands_view = <<>>
                                  /\ DOMAIN track._grouped_by_ligand_view = {}
      [] track.kind = "interpro" -> track._visible_domains_full_mode = <<>>
      [] track.kind = "ted" -> /\ track._visible_annotations_full_mode = <<>>
                               /\ DOMAIN track._parsed_segments_for_full_mode = {}
      [] track.kind = "custom" -> track._visible_annotations_in_view = <<>>

\* C8: in every kind and mode, when no annotation is visible in the view window
\* (the annotation list is empty, or no annotation overlaps the window, also
\* after an earlier window that showed data) the layout has zero lanes and zero
\* merged regions and the content height is row_height.
C8_EmptyTrack ==
    (LaidOut /\ VisibleAnnotations = {}) =>
      /\ NumLanes = 0
      /\ NoLanes
      /\ MergedRegions = <<>>
      /\ track.height = RowHeight

\* a CustomTrack with annotations, none in the window, after a window that
\* showed some
C8_Witness ==
    /\ LaidOut
    /\ earlier = "data"
    /\ track.kind = "custom"
    /\ track.processed_annotations # <<>>
    /\ VisibleAnnotations = {}

----------------------------------------------------------------------------
(* C9, C10: CustomTrack._process_custom_ann_data *)

\* the constructor call has been made
Constructed == track.kind = "custom"

\* the value is an integer: an int, or the decimal str of one
IsInteger(x) == x.t \in {"int", "str"}

\* twice the number the value denotes (a float v + 0.5 denotes no integer)
Twice(x) == IF x.t = "float" THEN 2 * x.v + 1 ELSE 2 * x.v

\* the raw record is valid: a dict with an integer 'position', or without
\* 'position' and with integer 'start' and 'end'
ValidRecord(r) ==
    /\ r.isdict
    /\ IF r.position # Absent THEN IsInteger(r.position)
       ELSE IsInteger(r.start) /\ IsInteger(r.end)

\* the normalized form of a valid raw record
Normalized(r) ==
    LET s == IF r.position # Absent THEN r.position.v ELSE Min(r.start.v, r.end.v)
        e == IF r.position # Absent THEN r.position.v ELSE Max(r.start.v, r.end.v)
    IN [position |-> r.position, start |-> s, end |-> e,
        display_type |-> IF s = e THEN "marker" ELSE "bar"]

\* C9: for any list of raw records, however a record is malformed (not a dict,
\* neither 'position' nor both 'start' and 'end', a non-integer value of any
\* type), no exception escapes the construction and the processed list is
\* exactly the normalized valid records, in input order.
C9_SkipAndContinue ==
    Constructed =>
      /\ track.raised = ""
      /\ LET valid == SelectSeq(track.annotation_data_orig, ValidRecord)
         IN track.processed_annotations
              = [j \in 1..Len(valid) |-> Normalized(valid[j])]

\* the raw records int() accepts: the ones _process_custom_ann_data appends
IntAccepts(x) == x.t \in {"int", "str", "float"}
Appended(r) ==
    /\ r.isdict
    /\ IF r.position # Absent THEN IntAccepts(r.position)
       ELSE IntAccepts(r.start) /\ IntAccepts(r.end)

\* C10: every record of processed_annotations has integer start <= end; a
\* record supplied with start > end is kept with the two values swapped; a
\* record supplied with 'position' p has start = end = p, also when 'start' and
\* 'end' are supplied beside it.
C10_IntervalNormalization ==
    (Constructed /\ track.raised = "") =>
      LET raw == SelectSeq(track.annotation_data_orig, Appended)
          P == track.processed_annotations
      IN /\ Len(P) = Len(raw)
         /\ \A j \in 1..Len(P) :
              /\ P[j].start <= P[j].end
              /\ raw[j].position # Absent =>
                   /\ 2 * P[j].start = Twice(raw[j].position)
                   /\ 2 * P[j].end = Twice(raw[j].position)
              /\ (raw[j].position = Absent /\ Twice(raw[j].start) > Twice(raw[j].end)) =>
                   /\ 2 * P[j].start = Twice(raw[j].end)
                   /\ 2 * P[j].end = Twice(raw[j].start)
              /\ (raw[j].position = Absent /\ Twice(raw[j].start) <= Twice(raw[j].end)) =>
                   /\ 2 * P[j].start = Twice(raw[j].start)
                   /\ 2 * P[j].end = Twice(raw[j].end)

----------------------------------------------------------------------------
(* C11 .. C14: plot_protein_tracks *)

\* plot_protein_tracks has been called and has drawn the tracks
Plotted == plot.called /\ ~plot.returned_early

\* C11: with figure_height not given, the total used to size the canvas is the
\* sum over the tracks of the content height computed for the requested view
\* window plus the track's padding allowance, that is the cumulative baseline
\* reached after all tracks are drawn, on the first call and on later calls.
C11_CanvasHeight ==
    Plotted =>
      /\ plot.current_y_position = SumTotalHeight(plot.tracks)
      /\ plot.total_plot_height_units = plot.current_y_position

\* the requested window, an absent bound being the end of the sequence, clamped
\* to [1, sequence_length]
Clamp(n) == Max(1, Min(n, plot.sequence_length))
RequestedStart == IF plot.view_start_aa.given THEN Clamp(plot.view_start_aa.v) ELSE 1
RequestedEnd ==
    IF plot.view_end_aa.given THEN Clamp(plot.view_end_aa.v) ELSE plot.sequence_length
InvalidRequest ==
    /\ plot.view_start_aa.given \/ plot.view_end_aa.given
    /\ RequestedStart >= RequestedEnd

\* every track was drawn with the window w
AllDrawnWith(w) ==
    /\ Len(plot.drawn_with) = Len(plot.tracks)
    /\ \A i \in 1..Len(plot.drawn_with) : plot.drawn_with[i] = w

FullSequence == <<1, plot.sequence_length>>

\* C12: with sequence_length >= 2, whenever the requested window has
\* start >= end after clamping to [1, sequence_length], every track is drawn
\* with the full sequence (1, sequence_length).
C12_InvalidWindowFallback ==
    (Plotted /\ plot.sequence_length >= 2 /\ InvalidRequest)
      => AllDrawnWith(FullSequence)

\* the window is passed through or defaulted as the caller may expect
PassThroughOrDefault ==
    /\ (~plot.view_start_aa.given /\ ~plot.view_end_aa.given)
         => AllDrawnWith(FullSequence)
    /\ (/\ plot.view_start_aa.given
        /\ plot.view_end_aa.given
        /\ 1 <= plot.view_start_aa.v
        /\ plot.view_start_aa.v < plot.view_end_aa.v
        /\ plot.view_end_aa.v <= plot.sequence_length)
         => AllDrawnWith(<<plot.view_start_aa.v, plot.view_end_aa.v>>)

C14_FallbackWarning ==
    (Plotted /\ InvalidRequest /\ AllDrawnWith(FullSequence)) => plot.warned

----------------------------------------------------------------------------
(* C15: every visible PDB record is placed *)

\* C15: in full mode of PDBTrack, for any view window, every record that
\* passes the view filter, point records and records that touch the window in
\* a single residue included, is exactly once in the lane assignment, with a
\* lane index >= 0.
C15_EveryVisiblePlaced ==
    PDBFull =>
      LET A == track._lanes_assignment_view
      IN \A i \in VisibleAnnotations :
            /\ Cardinality({j \in 1..Len(A) : A[j].entry = i}) = 1
            /\ \A j \in 1..Len(A) : A[j].entry = i => A[j].lane >= 0

----------------------------------------------------------------------------
(* C16: ligand lanes *)

\* the ligand ids with at least one site that overlaps the view
VisibleLigands == {lig \in Ligands : LigandKept(lig) # <<>>}

\* the rank of a ligand id among the visible ligand ids, ascending, from 0
LigandRank(lig) ==
    Cardinality({k \in VisibleLigands : StrRank(k) < StrRank(lig)})

\* C16: in full mode of LigandInteractionTrack the number of lanes is the
\* number of distinct ligand ids with at least one visible site; every visible
\* site of a ligand, whichever interaction record it comes from and whether or
\* not it overlaps another site of that ligand, is drawn on that ligand's one
\* lane; the lane index is the rank of the ligand id in ascending order.
C16_LigandLanes ==
    (track.kind = "ligand" /\ IsFull /\ LaidOut) =>
      LET drawn == LigandDrawFullMode(track, view[1], view[2])
      IN /\ track._num_ligand_lanes_view = Cardinality(VisibleLigands)
         /\ \A lig \in VisibleLigands :
               \A site \in Range(LigandKept(lig)) :
                  \E d \in drawn : d.ligand_id = lig /\ d.site = site
         /\ \A d \in drawn :
               /\ d.ligand_id \in VisibleLigands
               /\ d.site \in Range(LigandKept(d.ligand_id))
               /\ d.lane_index = LigandRank(d.ligand_id)

\* two interaction records of one ligand whose visible sites overlap each
\* other: the ligand has one lane, and three rectangles are drawn on it
C16_Witness ==
    /\ track.kind = "ligand" /\ IsFull /\ LaidOut
    /\ Len(track.interaction_data_orig) = 2
    /\ track.interaction_data_orig[1].ligand_id = "HEM"
    /\ track.interaction_data_orig[2].ligand_id = "HEM"
    /\ \E a \in Range(Kept(SpanLists[1])), b \in Range(Kept(SpanLists[2])) :
          a # b /\ ~(a[2] < b[1] \/ b[2] < a[1])
    /\ track._num_ligand_lanes_view = 1
    /\ Cardinality(LigandDrawFullMode(track, view[1], view[2])) = 3

----------------------------------------------------------------------------
(* C17: InterPro lanes *)

\* the accessions of the annotations with at least one location in the view
VisibleAccessions ==
    {track.domain_data_orig[i].accession : i \in VisibleAnnotations}

\* C17: in full mode of InterProTrack the number of lanes, and with it the
\* height, is given by the number of distinct accessions among the
\* annotations with a visible location: two annotations with the same
\* accession do not make two lanes.
C17_LanePerAccession ==
    (track.kind = "interpro" /\ IsFull /\ LaidOut) =>
      LET n == Cardinality(VisibleAccessions)
      IN /\ NumLanes = n
         /\ track.height = IF n = 0 THEN ip_domain_height
                           ELSE n * ip_domain_height + Max(0, n - 1) * ip_domain_spacing

----------------------------------------------------------------------------
(* C18: custom annotation lanes *)

\* C18: in CustomTrack, for every view window, each visible annotation is
\* drawn on a lane of its own; its lane index is its rank among the visible
\* annotations in input order, so the lane count is the number of visible
\* annotations and the lane indices are 0..n-1 without gaps.
C18_LanePerAnnotation ==
    (track.kind = "custom" /\ LaidOut) =>
      LET drawn == CustomDrawLanes(track, view[1], view[2])
          n == Cardinality(VisibleAnnotations)
      IN /\ NumLanes = n
         /\ {d.ann : d \in drawn} = VisibleAnnotations
         /\ {d.lane_index : d \in drawn} = 0..(n - 1)
         /\ \A d \in drawn :
               d.lane_index = Cardinality({k \in VisibleAnnotations : k < d.ann})
         /\ \A d1, d2 \in drawn : d1.lane_index = d2.lane_index => d1 = d2

\* three annotations of which the second is outside the view: the first and
\* the third are drawn on lanes 0 and 1
C18_Witness ==
    /\ track.kind = "custom" /\ LaidOut
    /\ Len(track.processed_annotations) = 3
    /\ VisibleAnnotations = {1, 3}
    /\ CustomDrawLanes(track, view[1], view[2])
         = {[lane_index |-> 0, ann |-> 1], [lane_index |-> 1, ann |-> 3]}

----------------------------------------------------------------------------
(* C19: first-fit uses the least number of lanes *)

\* the records of the lane assignment
Placed == {track._lanes_assignment_view[j].entry :
             j \in 1..Len(track._lanes_assignment_view)}

\* the number of placed records whose clipped interval contains position p
Depth(p) == Cardinality({i \in Placed : ClipStart(i) <= p /\ p <= ClipEnd(i)})

\* the largest depth over the positions of the sequence
MaxDepth == CHOOSE d \in 0..MaxRecs :
               /\ \A p \in 1..MaxPos : Depth(p) <= d
               /\ d = 0 \/ \E p \in 1..MaxPos : Depth(p) = d

\* C19: in full mode of PDBTrack, for every record set and view window, the
\* number of lanes is the largest number of placed records whose clipped
\* intervals have a position in common.  Records on one lane have no position
\* in common, so each assignment needs at least that many lanes: none has fewer.
C19_FirstFitOptimal ==
    PDBFull =>
      /\ track._num_lanes_view = MaxDepth
      /\ \A j1, j2 \in 1..Len(track._lanes_assignment_view) :
            LET a == track._lanes_assignment_view[j1]
                b == track._lanes_assignment_view[j2]
            IN (j1 # j2 /\ a.lane = b.lane) =>
                  (ClipEnd(a.entry) < ClipStart(b.entry)
                   \/ ClipEnd(b.entry) < ClipStart(a.entry))

\* three placed records, each sharing a position with another one, and no
\* position common to all three: two lanes
C19_Witness ==
    /\ PDBFull
    /\ Len(track._lanes_assignment_view) = 3
    /\ track._num_lanes_view = 2
    /\ \A i \in Placed : \E k \in Placed \ {i} :
          ~(ClipEnd(i) < ClipStart(k) \/ ClipEnd(k) < ClipStart(i))
    /\ MaxDepth = 2

----------------------------------------------------------------------------
(* C20: the merged regions and the view window *)

\* a span clipped to the last view window
ClipToView(span) == <<Max(span[1], view[1]), Min(span[2], view[2])>>

\* the positions covered by a set of spans
Covered(S) == {p \in 1..MaxPos : \E span \in S : span[1] <= p /\ p <= span[2]}

\* the merge of a set of spans: the maximal runs of covered positions
Runs(S) ==
    {r \in (1..MaxPos) \X (1..MaxPos) :
        /\ r[1] <= r[2]
        /\ \A p \in r[1]..r[2] : p \in Covered(S)
        /\ (r[1] - 1) \notin Covered(S)
        /\ (r[2] + 1) \notin Covered(S)}

\* C20 as stated: in collapse mode every merged region of the layout result
\* lies within the view window, view.start <= region.start and
\* region.end <= view.end, the merger having been given clipped spans.
C20_RegionsWithinView ==
    (LaidOut /\ IsCollapse) =>
      \A r \in Range(MergedRegions) : view[1] <= r[1] /\ r[2] <= view[2]

\* C20: in collapse mode the merger is given the visible spans unclipped.
\* Every merged region of the layout result overlaps the view window, and the
\* regions clipped to the window are exactly the merge of the clipped visible
\* spans.
C20_RegionsClipToMerge ==
    (LaidOut /\ IsCollapse) =>
      /\ \A r \in Range(MergedRegions) : OverlapsSeg(r)
      /\ {ClipToView(r) : r \in Range(MergedRegions)}
           = Runs({ClipToView(span) : span \in VisibleSpans})
      /\ \A r1, r2 \in Range(MergedRegions) :
            ClipToView(r1) = ClipToView(r2) => r1 = r2

\* two visible spans merged into one region that begins before the view
\* window and ends after it
C20_Witness ==
    /\ LaidOut /\ IsCollapse
    /\ Cardinality(VisibleSpans) = 2
    /\ Len(MergedRegions) = 1
    /\ MergedRegions[1][1] < view[1]
    /\ MergedRegions[1][2] > view[2]

----------------------------------------------------------------------------
(* C21 .. C25: the data_retrieval functions *)

\* the call of function f has been made
CallDone(f) == call.op = "done" /\ call.function = f

\* the request of the call failed: session.get raised, the status is an
\* error status, or the content of a successful response is not JSON
RequestFailed ==
    \/ call.reply.fault
    \/ call.reply.status_code >= 400
    \/ call.reply.content.form = "invalid"

\* the getters that feed the tracks
Getters == {"get_pdb_coverage", "get_pdb_ligand_interactions",
            "get_TED_annotations", "get_pfam_annotations",
            "get_cathgene3d_annotations"}

\* C21: whenever the request behind get_pdb_coverage,
\* get_pdb_ligand_interactions, get_TED_annotations, get_pfam_annotations or
\* get_cathgene3d_annotations fails (a RequestException, or the ValueError
\* for a content that is not JSON), the getter returns [] and raises nothing.
C21_GettersDegrade ==
    \A f \in Getters :
       (CallDone(f) /\ RequestFailed) => call.outcome = Return(<<>>)

\* get_pdb_coverage has been called and the service replied 200 with a
\* content that is not JSON
C21_Witness ==
    /\ CallDone("get_pdb_coverage")
    /\ call.reply = HttpReply(200, InvalidContent)
    /\ call.outcome = Return(<<>>)

\* C22: _fetch_protein_interpro_summary returns None and raises nothing when
\* the response has a success status and a content that is not JSON, as it
\* does for a 404 and for an empty content.
C22_InvalidJsonGivesNone ==
    (/\ CallDone("_fetch_protein_interpro_summary")
     /\ ~call.reply.fault
     /\ \/ call.reply.status_code = 404
        \/ call.reply.status_code = 200 /\ call.reply.content.form \in {"empty", "invalid"})
    => call.outcome = Return(NoneResult)

\* the successful response of the call carries sequence.length
HasSequenceLength ==
    /\ call.reply.content.form = "json"
    /\ call.reply.content.json.has_sequence
    /\ call.reply.content.json.length # Absent

\* C23: for every response, get_protein_sequence_length ends in exactly one
\* of four ways: a 404 raises ValueError, any other error status raises the
\* HTTPError again, a successful response without sequence.length raises
\* KeyError, and otherwise the integer sequence.length is returned.
C23_OutcomeMapping ==
    (CallDone("get_protein_sequence_length") /\ ~call.reply.fault) =>
      IF call.reply.status_code = 404 THEN call.outcome = Raise("ValueError")
      ELSE IF call.reply.status_code >= 400 THEN call.outcome = Raise("HTTPError")
      ELSE IF ~HasSequenceLength THEN call.outcome = Raise("KeyError")
      ELSE /\ call.outcome.raised = ""
           /\ call.outcome.value \in Int
           /\ call.reply.content.json.length.t \in {"int", "str"}
           /\ call.outcome.value = call.reply.content.json.length.v

\* the entry details of the call cannot be obtained: the request fails, or
\* the reply is empty, not a list or an empty list
NoEntryDetails ==
    \/ call.reply.fault
    \/ call.reply.status_code >= 400
    \/ call.reply.content.form # "json"
    \/ ~call.reply.content.json.is_list
    \/ call.reply.content.json.entries = <<>>

\* what one data type must give, from its own URL and its own file alone
ExpectedScores(url, file_reply) ==
    IF url = Absent \/ file_reply.fault THEN <<>>
    ELSE IF file_reply.status_code >= 400 THEN <<>>
    ELSE IF file_reply.content.form = "scores" THEN file_reply.content.scores
    ELSE <<>>

HasCoverageList ==
    /\ ~call.reply.fault
    /\ call.reply.status_code = 200
    /\ call.reply.content.form = "json"
    /\ call.reply.content.json.has_uniprot_id

\* an entry that has the three keys, with positions that are integers
WellFormedCoverage(entry) ==
    /\ entry.pdb_id # Absent
    /\ entry.unp_start # Absent /\ PyInt(entry.unp_start).exc = ""
    /\ entry.unp_end # Absent /\ PyInt(entry.unp_end).exc = ""

\* the well-formed entries of a response list, in response order, with
\* integer positions
RECURSIVE KeptCoverage(_, _)
KeptCoverage(entries, n) ==
    IF n = 0 THEN <<>>
    ELSE IF WellFormedCoverage(entries[n])
         THEN Append(KeptCoverage(entries, n - 1),
                     [pdb_id |-> entries[n].pdb_id,
                      unp_start |-> PyInt(entries[n].unp_start).v,
                      unp_end |-> PyInt(entries[n].unp_end).v])
         ELSE KeptCoverage(entries, n - 1)

\* C25: for any response list get_pdb_coverage raises nothing and returns, in
\* response order and with integer unp_start and unp_end, every entry that
\* is not malformed; a malformed entry is skipped and never discards the
\* others.
C25_MalformedEntrySkipped ==
    (CallDone("get_pdb_coverage") /\ HasCoverageList) =>
      LET entries == call.reply.content.json.entries
      IN /\ call.outcome.raised = ""
         /\ call.outcome.value = KeptCoverage(entries, Len(entries))

----------------------------------------------------------------------------
(* C26 .. C30: lanes, the window, the stacking, the merge, the caller's data *)

\* the positions of a record's span restricted to the view window
ClippedPositions(i) == ClipStart(i)..ClipEnd(i)

\* C26: in full mode of PDBTrack, for every record set and view window, two
\* records on the same lane have view-clipped intervals with no position in
\* common, and the one assigned later starts after the one assigned earlier
\* ends.
C26_LaneNonOverlap ==
    PDBFull =>
      LET A == track._lanes_assignment_view
      IN \A j1, j2 \in 1..Len(A) :
            (j1 < j2 /\ A[j1].lane = A[j2].lane) =>
               /\ ClippedPositions(A[j1].entry) \cap ClippedPositions(A[j2].entry) = {}
               /\ ClipEnd(A[j1].entry) < ClipStart(A[j2].entry)

\* two records on lane 0, the second starting right after the first ends,
\* beside a record on lane 1
C26_Witness ==
    /\ PDBFull
    /\ \E j1, j2, j3 \in 1..Len(track._lanes_assignment_view) :
          LET A == track._lanes_assignment_view
          IN /\ j1 < j2
             /\ A[j1].lane = 0 /\ A[j2].lane = 0 /\ A[j3].lane = 1
             /\ ClipStart(A[j2].entry) = ClipEnd(A[j1].entry) + 1

\* every track was drawn, and with a window that is a range of the sequence
DrawnWithinSequence ==
    /\ Len(plot.drawn_with) = Len(plot.tracks)
    /\ \A i \in 1..Len(plot.drawn_with) :
         /\ 1 <= plot.drawn_with[i][1]
         /\ plot.drawn_with[i][1] < plot.drawn_with[i][2]
         /\ plot.drawn_with[i][2] <= plot.sequence_length

\* C27 as stated: for every sequence_length >= 1 and every requested
\* view_start_aa / view_end_aa, the window passed to each track's draw has
\* 1 <= start < end <= sequence_length.
C27_EffectiveWindow_AsStated ==
    (Plotted /\ plot.sequence_length >= 1) => DrawnWithinSequence

\* C27, amended: the same for every sequence_length >= 2; for
\* sequence_length = 1 the window passed to each track's draw is (1, 1).
C27_EffectiveWindow ==
    Plotted =>
      /\ plot.sequence_length >= 2 => DrawnWithinSequence
      /\ plot.sequence_length = 1 => AllDrawnWith(<<1, 1>>)

\* a negative start and an end beyond the sequence: two tracks drawn with
\* the full sequence
C27_Witness ==
    /\ Plotted
    /\ plot.sequence_length = 3
    /\ plot.view_start_aa = Arg(0 - 1)
    /\ plot.view_end_aa = Arg(4)
    /\ Len(plot.tracks) = 2
    /\ AllDrawnWith(<<1, 3>>)

\* the total height, for the window of the call, of the tracks drawn before
\* track i: the tracks behind it in the list
RECURSIVE HeightDrawnBefore(_)
HeightDrawnBefore(i) ==
    IF i >= Len(plot.tracks) THEN 0
    ELSE HeightDrawnBefore(i + 1) + get_total_height(plot.tracks[i + 1])

\* the vertical band of track i and its content block (PDBTrack.draw:
\* content_block_y_start = track_y_bottom + self.padding)
BandBottom(i) == plot.track_y_bottom[i]
BandTop(i) == plot.track_y_bottom[i] + get_total_height(plot.tracks[i])
ContentBottom(i) == plot.track_y_bottom[i] + plot.tracks[i].padding
ContentTop(i) == ContentBottom(i) + plot.tracks[i].height

\* C28: the tracks are drawn in reverse list order, each at a baseline equal
\* to the sum of get_total_height() of the tracks already drawn, these
\* heights being the ones computed for the window of the call; the bands
\* [baseline, baseline + total height) of different tracks do not overlap and
\* the content block of each track lies inside the track's band.
C28_BottomUpStacking ==
    Plotted =>
      /\ Len(plot.track_y_bottom) = Len(plot.tracks)
      /\ \A i \in 1..Len(plot.tracks) :
           /\ BandBottom(i) = HeightDrawnBefore(i)
           /\ BandBottom(i) <= ContentBottom(i)
           /\ ContentTop(i) <= BandTop(i)
      /\ \A i, j \in 1..Len(plot.tracks) :
           i < j => (BandTop(j) <= BandBottom(i) /\ BandBottom(j) < BandBottom(i))

\* two tracks: the second of the list, with two lanes in the window, is drawn
\* first at 0 and the first above it, at the second's total height
C28_Witness ==
    /\ Plotted
    /\ Len(plot.tracks) = 2
    /\ plot.tracks[2]._num_lanes_view = 2
    /\ plot.track_y_bottom[2] = 0
    /\ plot.track_y_bottom[1] = get_total_height(plot.tracks[2])
    /\ plot.track_y_bottom[1] = 400
    /\ plot.current_y_position = 400 + get_total_height(plot.tracks[1])

\* C29: in collapse mode of the four merging kinds the positions covered by
\* the merged regions are exactly the positions covered by the visible input
\* spans: merging drops no covered position and no region contains a
\* position that no visible span covers.
C29_MergePreservesCoverage ==
    (LaidOut /\ IsCollapse) =>
      /\ Covered(Range(MergedRegions)) = Covered(VisibleSpans)
      /\ \A r \in Range(MergedRegions) :
           \A p \in r[1]..r[2] : p \in Covered(VisibleSpans)
      /\ \A span \in VisibleSpans :
           \A p \in span[1]..span[2] : p \in Covered(Range(MergedRegions))

\* three visible spans, two of them overlapping, merged into two regions
\* with one uncovered position between them
C29_Witness ==
    /\ LaidOut /\ IsCollapse
    /\ Cardinality(VisibleSpans) = 3
    /\ Len(MergedRegions) = 2
    /\ MergedRegions[2][1] = MergedRegions[1][2] + 2
    /\ (MergedRegions[1][2] + 1) \notin Covered(VisibleSpans)
    /\ \E a, b \in VisibleSpans : a # b /\ a[1] <= b[1] /\ b[1] <= a[2]

\* C30: constructing a track and laying it out any number of times leaves
\* the annotation list the caller supplied, and its records, as they were:
\* same records, same order, same values.
C30_CallerDataUnchanged ==
    caller.handed => caller.annotation_data = caller.supplied

\* a PDBTrack constructed from three records that are not in ascending order
\* and laid out more than once: the track's own list is sorted, the caller's
\* is as supplied
C30_Witness ==
    /\ caller.handed
    /\ track.kind = "pdb"
    /\ Len(caller.supplied) = 3
    /\ track.pdb_data_orig # caller.supplied
    /\ earlier # "none"
    /\ caller.annotation_data = caller.supplied

====
